---- MODULE Spec2Model ----
(***************************************************************************)
(* State-machine model of trustyclaw's USDCPaymentService                  *)
(* (src/src/trustyclaw/sdk/usdc_payment.py): payment intents, the          *)
(* payment-service escrow, the payment history, the multisig policy and    *)
(* the balance notifications; and of the legacy EscrowClient               *)
(* (src/src/trustyclaw/sdk/escrow_contract.py).                            *)
(*                                                                         *)
(* Each component has its own specification over its own variables; the    *)
(* variables of the other components do not change under it.               *)
(*                                                                         *)
(* Abstractions (each one keeps what the code branches on):                *)
(*  - intent ids ("pi-" + uuid4) are fresh on every creation; the model    *)
(*    numbers them 1, 2, ... in creation order, and an intent's created_at *)
(*    is that creation ordinal;                                            *)
(*  - the other timestamps (executed_at, funded_at, ...) are only ever     *)
(*    tested for being set, so they are booleans: TRUE = set, FALSE = None;*)
(*  - a dict signer -> signature is modelled by its key set: the code uses *)
(*    only membership, truthiness and len() of these dicts;                *)
(*  - the ledger adapter is external: each call of transfer is one of      *)
(*    TransferOutcomes, with a signature drawn from TxSignatures;          *)
(*  - create_payment_intent's optional caller metadata is left at its      *)
(*    default (None); description strings are not modelled.                *)
(***************************************************************************)
EXTENDS Integers, Sequences, FiniteSets, TLC

\* ---------------------------------------------------------------- bounds
MaxIntents == 2
MaxHistory == 2
MaxTransfers == 2
MaxAlerts == 2
MaxEscrows == 1
\* Reviews created after the two of the mock data, disputes filed, votes cast,
\* and the length an agent's list of review ids may reach.
MaxReviews == 1
MaxDisputes == 2
MaxVotes == 2
MaxIndexed == 2
\* Calls of derive_escrow_pda that are compared with each other.
MaxPdaCalls == 2
\* Reviews added to one agent of the ReputationEngine.
MaxEngineReviews == 3
\* The clock's resolution: ticks per hour.
TICKS_PER_HOUR == 2

\* ------------------------------------------------------------ input sets
Wallets == {"A", "B", "C"}
\* (from_wallet, to_wallet) of the calls that create an intent
WalletPairs == {<<"A", "B">>}
EscrowIds == {"e1"}
Signers == {"s1", "s2"}
Authorities == Signers \cup {"x"}
TxSignatures == {"tx1"}
TransferOutcomes == {"confirmed", "failed", "raise"}
IntentIds == 1..MaxIntents

MIN_AMOUNT == 1000
MICRO_PER_USD == 1000000
MULTISIG_THRESHOLD_USD == 1000
FULLY_SIGNED_COUNT == 2

Amounts == {-100, 0, 999, MIN_AMOUNT, MULTISIG_THRESHOLD_USD * MICRO_PER_USD}

DefaultConfig ==
    [threshold_usd |-> MULTISIG_THRESHOLD_USD, required_signers |-> {}, required_count |-> 2]

Configs ==
    { DefaultConfig,
      [threshold_usd |-> MULTISIG_THRESHOLD_USD, required_signers |-> Signers, required_count |-> 2] }

\* Policies set_multisig_config is called with where the stamping of new
\* intents is examined: also a disabled threshold (0) and a threshold of 1 USD.
PolicyConfigs ==
    Configs \cup
    { [threshold_usd |-> 0, required_signers |-> Signers, required_count |-> 2],
      [threshold_usd |-> 1, required_signers |-> {"s1"}, required_count |-> 1] }

\* Amounts on both sides of the 1 USD and the 1000 USD thresholds.
PolicyAmounts ==
    { MIN_AMOUNT, MICRO_PER_USD - 1, MICRO_PER_USD,
      MULTISIG_THRESHOLD_USD * MICRO_PER_USD - 1, MULTISIG_THRESHOLD_USD * MICRO_PER_USD }

VARIABLES
    payment_intents,    \* self._payment_intents: sequence, intent_id = index
    escrow_payments,    \* self._escrow_payments: escrow_id -> EscrowPayment
    payment_history,    \* self._payment_history: sequence of Payment
    multisig_config,    \* self.multisig_config
    last,               \* the last call: operation, arguments, adapter outcome, result
    calls,              \* execute_payment_intent calls in progress, one per caller
    ledger_transfers,   \* intent_id -> number of transfers the adapter was asked for
    balance_notifications,  \* self._balance_notifications: wallet -> BalanceNotification
    now,                \* datetime.now(timezone.utc), in ticks
    alerts,             \* wallet -> the alerts delivered to callbacks and webhook
    notify_last,        \* the last notification call and the dict it returned
    escrows,            \* EscrowClient._escrows: escrow_id -> Escrow
    escrow_last,        \* the last EscrowClient call and whether it raised
    amount_last,        \* the last release/refund amount query and what it returned
    reviews,            \* ReviewService._reviews: review_id -> Review
    disputes,           \* ReviewService._disputes: sequence, dispute_id = index
    votes,              \* ReviewService._votes: sequence of ReviewVote
    review_ids_by_agent,    \* ReviewService._review_ids_by_agent: agent -> list of ids
    review_last,        \* the last ReviewService call and what it returned
    pda_log,            \* the derive_escrow_pda calls made: arguments and id returned
    engine_reviews,     \* ReputationEngine: agent -> the reviews added, in order
    engine_scores       \* ReputationEngine: agent -> the ReputationScore kept for it

concurrentVars == <<calls, ledger_transfers>>
notifyVars == <<balance_notifications, now, alerts, notify_last>>
legacyVars == <<escrows, escrow_last>>
amountVars == <<amount_last>>
reviewVars == <<reviews, disputes, votes, review_ids_by_agent, review_last>>
pdaVars == <<pda_log>>
reputationVars == <<engine_reviews, engine_scores>>

\* What the operations of the payment intents, escrows and policy leave alone.
OutsideService == <<concurrentVars, notifyVars, legacyVars, amountVars, reviewVars, pdaVars,
      reputationVars>>

vars == <<payment_intents, escrow_payments, payment_history, multisig_config, last,
          concurrentVars, notifyVars, legacyVars, amountVars, reviewVars, pdaVars,
          reputationVars>>

\* --------------------------------------------------------------- results
NoResult ==
    [success |-> FALSE, payment_intent_id |-> 0, signature |-> "none",
     status |-> "none", error |-> "none", needed |-> 0]

Failure(intent_id, status, error) ==
    [NoResult EXCEPT !.payment_intent_id = intent_id, !.status = status, !.error = error]

Success(intent_id, signature, status) ==
    [NoResult EXCEPT !.success = TRUE, !.payment_intent_id = intent_id,
                     !.signature = signature, !.status = status]

IntentStatus(intent_id) ==
    IF intent_id \in DOMAIN payment_intents THEN payment_intents[intent_id].status ELSE "none"

EscrowStatus(escrow_id) ==
    IF escrow_id \in DOMAIN escrow_payments THEN escrow_payments[escrow_id].status ELSE "absent"

\* What a call did, as its caller and the adapter see it: the operation, the
\* intent and escrow it concerns and their statuses before the call, the amount
\* argument (of the creating calls), the adapter's outcome if transfer was
\* called, whether the call raised, the result returned, and which parts of the
\* service's state the call left as they were (same_escrow_states: every escrow
\* record is as it was but for signatures added to its signature map). Written
\* after the call's updates.
Call(op, intent_id, escrow_id, outcome, raised, transfer, res) ==
    [op |-> op, intent_id |-> intent_id, escrow_id |-> escrow_id, amount |-> 0,
     pre_intent |-> IntentStatus(intent_id), pre_escrow |-> EscrowStatus(escrow_id),
     outcome |-> outcome, raised |-> raised, transfer |-> transfer, res |-> res,
     same_intents |-> payment_intents' = payment_intents,
     same_escrows |-> escrow_payments' = escrow_payments,
     same_history |-> payment_history' = payment_history,
     same_config |-> multisig_config' = multisig_config,
     same_escrow_states |->
        \/ escrow_payments' = escrow_payments
        \/ /\ DOMAIN escrow_payments' = DOMAIN escrow_payments
           /\ \A e \in DOMAIN escrow_payments :
                 LET old == escrow_payments[e]
                     new == escrow_payments'[e]
                 IN /\ new.status = old.status
                    /\ new.funded_at = old.funded_at
                    /\ new.released_at = old.released_at
                    /\ new.refunded_at = old.refunded_at
                    /\ new.amount = old.amount
                    /\ new.payment_intent_id = old.payment_intent_id
                    /\ new.from_wallet = old.from_wallet
                    /\ new.to_wallet = old.to_wallet
                    /\ old.signatures \subseteq new.signatures]

Creation(op, amount, intent_id, escrow_id, raised, res) ==
    [Call(op, intent_id, escrow_id, "none", raised, FALSE, res) EXCEPT !.amount = amount]

\* The threads that call the service at the same time.
Callers == {"c1", "c2"}

\* A caller that is not inside a call of the service.
IdleCall ==
    [pc |-> "idle", intent_id |-> 0, escrow_id |-> "none", observed |-> "none",
     signature |-> "none", res |-> NoResult]

\* --------------------------------------------------- balance notifications
RATE_LIMIT_HOURS == 1
HOURS_PER_DAY == 24
DEFAULT_AUTO_RELOAD_AMOUNT == 100000000
\* None, for last_notified_at and last_reloaded_at
NotSet == -1

NotifyWallets == {"A"}
NotifyThresholds == {10}
\* What usdc_client.get_balance returns, in USD
Balances == {5, 10}
\* callback_url: None or a URL
CallbackUrls == {"none", "url"}
\* auto_reload_amount: None (0) or an amount
ReloadAmounts == {0, 50000000}

\* The times at which calls are made: at once, within the hour, an hour
\* later, and the same on the next day.
Instants ==
    { 0, 1, RATE_LIMIT_HOURS * TICKS_PER_HOUR, RATE_LIMIT_HOURS * TICKS_PER_HOUR + 1,
      HOURS_PER_DAY * TICKS_PER_HOUR, HOURS_PER_DAY * TICKS_PER_HOUR + 1 }

\* datetime.date()
DateOf(t) == t \div (HOURS_PER_DAY * TICKS_PER_HOUR)

\* The dict check_balance_and_notify returns.
NoAlert(reason) == [alert_sent |-> FALSE, reason |-> reason, auto_reloaded |-> FALSE]

AlertSent(auto_reloaded) ==
    [alert_sent |-> TRUE, reason |-> "none", auto_reloaded |-> auto_reloaded]

\* A notification call as its caller sees it: the wallet's registration before
\* the call (registered, last_notified_at), the arguments, the balance the
\* adapter reported, the time of the call and the dict returned.
NotifyCall(op, wallet, force, balance, res) ==
    [op |-> op, wallet |-> wallet, force |-> force, balance |-> balance, at |-> now,
     registered |-> wallet \in DOMAIN balance_notifications,
     pre_notified_at |-> IF wallet \in DOMAIN balance_notifications
                         THEN balance_notifications[wallet].last_notified_at ELSE NotSet,
     res |-> res]

\* ------------------------------------------------------ legacy EscrowClient
\* Escrow ids: "escrow-demo-1" of the mock data is 0, and the k-th escrow
\* created ("escrow-" + uuid4, fresh) is k.
DEMO_ESCROW == 0
DEMO_AMOUNT == 1000000
LegacyIds == 0..MaxEscrows

\* An amount is an unsigned integer as wide as the code makes it (the escrow
\* account stores it in 8 bytes; a Python int is unbounded): the sequence of
\* its digits in base 2^LIMB_BITS, lowest first, without leading zeros; 0 is <<>>.
LIMB_BITS == 12

RECURSIVE Wide(_)
Wide(n) == IF n = 0 THEN <<>> ELSE <<n % (2 ^ LIMB_BITS)>> \o Wide(n \div (2 ^ LIMB_BITS))

RECURSIVE Trim(_)
Trim(x) ==
    IF x = <<>> THEN <<>>
    ELSE IF x[Len(x)] = 0 THEN Trim(SubSeq(x, 1, Len(x) - 1)) ELSE x

RECURSIVE AddCarry(_, _, _)
AddCarry(x, y, carry) ==
    IF x = <<>> /\ y = <<>> THEN (IF carry = 0 THEN <<>> ELSE <<carry>>)
    ELSE LET a == IF x = <<>> THEN 0 ELSE Head(x)
             b == IF y = <<>> THEN 0 ELSE Head(y)
             sum == a + b + carry
         IN <<sum % (2 ^ LIMB_BITS)>> \o AddCarry(IF x = <<>> THEN <<>> ELSE Tail(x),
                                        IF y = <<>> THEN <<>> ELSE Tail(y), sum \div (2 ^ LIMB_BITS))

\* x * digit + carry, for digit and carry below 2 ^ LIMB_BITS
RECURSIVE Scale(_, _, _)
Scale(x, digit, carry) ==
    IF x = <<>> THEN (IF carry = 0 THEN <<>> ELSE <<carry>>)
    ELSE LET product == Head(x) * digit + carry
         IN <<product % (2 ^ LIMB_BITS)>> \o Scale(Tail(x), digit, product \div (2 ^ LIMB_BITS))

RECURSIVE Times(_, _)
Times(x, y) ==
    IF x = <<>> \/ y = <<>> THEN <<>>
    ELSE AddCarry(Trim(Scale(y, Head(x), 0)),
                  LET rest == Times(Tail(x), y) IN IF rest = <<>> THEN <<>> ELSE <<0>> \o rest,
                  0)

RECURSIVE LessThan(_, _)
LessThan(x, y) ==
    IF Len(x) # Len(y) THEN Len(x) < Len(y)
    ELSE IF x = <<>> THEN FALSE
    ELSE IF x[Len(x)] # y[Len(y)] THEN x[Len(x)] < y[Len(y)]
    ELSE LessThan(SubSeq(x, 1, Len(x) - 1), SubSeq(y, 1, Len(y) - 1))

\* The number of binary digits of x
BitLength(x) ==
    IF x = <<>> THEN 0
    ELSE (Len(x) - 1) * LIMB_BITS + (CHOOSE w \in 1..LIMB_BITS : x[Len(x)] \div 2 ^ w = 0)

\* The binary digit of x that weighs 2^i
Bit(x, i) ==
    IF i \div LIMB_BITS >= Len(x) THEN 0
    ELSE (x[i \div LIMB_BITS + 1] \div 2 ^ (i % LIMB_BITS)) % 2

\* x * 2^k
ShiftLeft(x, k) ==
    IF x = <<>> THEN <<>>
    ELSE [i \in 1..(k \div LIMB_BITS) |-> 0] \o Scale(x, 2 ^ (k % LIMB_BITS), 0)

\* x \div 2^k
ShiftRight(x, k) ==
    LET q == k \div LIMB_BITS
        r == k % LIMB_BITS
        digit(j) == IF j > Len(x) THEN 0 ELSE x[j]
    IN IF q >= Len(x) THEN <<>>
       ELSE Trim([j \in 1..(Len(x) - q) |->
                     digit(j + q) \div 2 ^ r + (digit(j + q + 1) % 2 ^ r) * 2 ^ (LIMB_BITS - r)])

\* hi * 2^24 + lo, for writing down amounts wider than the checker's integers
WideOf(hi, lo) == AddCarry(ShiftLeft(Wide(hi), 24), Wide(lo), 0)

\* A Python float (IEEE 754 binary64) that is not negative: mant * 2^exp with
\* mant of at most DOUBLE_BITS binary digits.
DOUBLE_BITS == 53

\* The double nearest to the integer x, ties to the even mantissa.
ToDouble(x) ==
    IF BitLength(x) <= DOUBLE_BITS THEN [mant |-> x, exp |-> 0]
    ELSE LET k == BitLength(x) - DOUBLE_BITS
             kept == ShiftRight(x, k)
             half == Bit(x, k - 1) = 1
             sticky == \E i \in 0..(k - 2) : Bit(x, i) = 1
             up == half /\ (sticky \/ Bit(kept, 0) = 1)
         IN [mant |-> IF up THEN AddCarry(kept, <<>>, 1) ELSE kept, exp |-> k]

\* float * float: the exact product, rounded to the nearest double.
FloatTimes(f, g) ==
    LET product == ToDouble(Times(f.mant, g.mant))
    IN [mant |-> product.mant, exp |-> product.exp + f.exp + g.exp]

\* int(float): the fraction is cut off.
IntOf(f) == IF f.exp >= 0 THEN ShiftLeft(f.mant, f.exp) ELSE ShiftRight(f.mant, 0 - f.exp)

\* The float literal 0.99: 8917127262193582 * 2^-53.
REFUND_RATE == [mant |-> WideOf(531502202, 14763950), exp |-> 0 - DOUBLE_BITS]

LegacyAmounts == {Wide(DEMO_AMOUNT)}
\* Principals of the amount queries: none, around one unit of fee, the demo
\* amount, and 188094704946601 (188 million USDC).
QueryAmounts ==
    { Wide(0), Wide(1), Wide(99), Wide(100), Wide(101), Wide(DEMO_AMOUNT),
      WideOf(11211318, 1215913) }
DeliverableHashes == {"h1"}
Resolutions == {"released", "refunded", "split", "other"}

\* Escrow(...): the terms' amount, the state, and the optional fields (the
\* timestamps and the dispute reason as set / not set).
NewEscrow(amount, state, funded_at) ==
    [amount |-> amount, state |-> state, funded_at |-> funded_at,
     completed_at |-> FALSE, released_at |-> FALSE, refunded_at |-> FALSE,
     dispute_reason |-> FALSE, dispute_resolved_at |-> FALSE,
     dispute_resolution |-> "none", actual_deliverable_hash |-> "none"]

\* _init_mock_data (mock=True is the constructor's default)
DemoEscrow == NewEscrow(Wide(DEMO_AMOUNT), "funded", TRUE)

LegacyState(escrow_id) ==
    IF escrow_id \in DOMAIN escrows THEN escrows[escrow_id].state ELSE "absent"

\* A call as its caller sees it: the escrow's state before the call, whether
\* EscrowError was raised, the state its message names, and whether the
\* escrows, or the escrows other than this one, are as they were.
LegacyCall(op, escrow_id, raised, names_state) ==
    [op |-> op, escrow_id |-> escrow_id, pre_state |-> LegacyState(escrow_id),
     raised |-> raised, names_state |-> names_state,
     same_escrows |-> escrows' = escrows,
     same_others |-> \A e \in DOMAIN escrows \ {escrow_id} :
                        e \in DOMAIN escrows' /\ escrows'[e] = escrows[e]]

\* ----------------------------------------------------------- review service
\* Review ids: "mock-review-1" and "mock-review-2" are 1 and 2, and the k-th
\* review created ("review-" + uuid4, fresh) is 2 + k. A review's created_at
\* is its id. Dispute ids number the disputes in filing order.
MockReviewIds == {1, 2}
ReviewIds == 1..(Cardinality(MockReviewIds) + MaxReviews)
DisputeIds == 1..MaxDisputes
\* Providers: the two of the mock data
ReviewAgents == {"GFey", "HajV"}
\* The arguments create_review is called with
ReviewProviders == {"GFey"}
Ratings == {2}
Qualities == {"excellent", "good", "fair", "poor"}
DisputeResolutions == {"approved"}
\* min_reviews: none required, the default, and more
MinReviews == {0, 1, 2}
DEFAULT_REVIEW_LIMIT == 50

NewReview(provider, rating, completed_on_time, output_quality, created_at, status) ==
    [provider |-> provider, rating |-> rating, completed_on_time |-> completed_on_time,
     output_quality |-> output_quality, created_at |-> created_at, status |-> status,
     dispute_reason |-> FALSE, dispute_resolved_at |-> FALSE, resolution |-> "none",
     dispute_comments |-> <<>>, helpful_votes |-> 0, unhelpful_votes |-> 0]

\* _init_mock_data (mock=True is the constructor's default)
MockReviews ==
    [r \in MockReviewIds |->
        IF r = 1 THEN NewReview("GFey", 5, TRUE, "excellent", 1, "submitted")
        ELSE NewReview("HajV", 4, TRUE, "good", 2, "submitted")]

ReviewStatusOf(review_id) ==
    IF review_id \in DOMAIN reviews THEN reviews[review_id].status ELSE "none"

\* ------------------------------------------------------ derived escrow ids
\* A str is the sequence of its characters.
PROVIDER_PREFIX == 8
\* provider: two addresses that differ in their ninth character, and two
\* short identifiers, one of them with a dash
PdaProviders ==
    { <<"G", "F", "e", "y", "F", "Z", "L", "m", "v">>,
      <<"G", "F", "e", "y", "F", "Z", "L", "m", "w">>, <<"a">>, <<"a", "-", "b">> }
PdaSkills == { <<"c">>, <<"b", "-", "c">> }

\* ------------------------------------------------------- ReputationEngine
\* trustyclaw.sdk.reputation is described by the specification and exercised
\* by the tests. Numbers that the engine keeps as floats are exact fractions
\* here: <<numerator, denominator>>.
EngineAgents == {"test"}
\* Review.rating: the bounds of 1..5, and one value outside on each side
EngineRatings == {0, 1, 5, 6}

\* ReputationScore(agent_id): no reviews, and the default score of 50.0
NewScore ==
    [total_reviews |-> 0, average_rating |-> <<0, 1>>, on_time_percentage |-> <<0, 1>>,
     reputation_score |-> <<50, 1>>]

\* -------------------------------------------------------- payment intents
\* Faulty variant of AmountError: the minimum is not enforced.
AmountError_NoMinimum(amount) ==
    IF amount <= 0 THEN "Amount must be positive" ELSE "none"

AmountError(amount) ==
    IF amount <= 0 THEN "Amount must be positive"
    ELSE IF amount < MIN_AMOUNT THEN "Amount below minimum"
    ELSE "none"

\* Faulty variant of AmountUsdAtLeast: the boundary amount is excluded.
AmountUsdAtLeast_Strict(amount, usd) == amount > usd * MICRO_PER_USD

\* amount / 1_000_000 >= threshold_usd, compared without rounding
AmountUsdAtLeast(amount, usd) == amount >= usd * MICRO_PER_USD

RequiresMultisig(config, amount) ==
    config.threshold_usd > 0 /\ AmountUsdAtLeast(amount, config.threshold_usd)

NewIntent(intent_id, amount, from_wallet, to_wallet, escrow_id) ==
    LET requires_multisig == RequiresMultisig(multisig_config, amount) IN
    [intent_id |-> intent_id, from_wallet |-> from_wallet, to_wallet |-> to_wallet,
     amount |-> amount, status |-> "pending", created_at |-> intent_id,
     executed_at |-> FALSE, confirmed_at |-> FALSE, signature |-> "none",
     escrow_id |-> escrow_id,
     requires_multisig |-> requires_multisig,
     signers_required |-> IF requires_multisig THEN multisig_config.required_signers ELSE {},
     signatures_collected |-> {}]

Init ==
    /\ payment_intents = <<>>
    /\ escrow_payments = [e \in {} |-> 0]
    /\ payment_history = <<>>
    /\ multisig_config \in Configs
    /\ last = [op |-> "init", intent_id |-> 0, escrow_id |-> "none", amount |-> 0,
               pre_intent |-> "none", pre_escrow |-> "absent", outcome |-> "none",
               raised |-> FALSE, transfer |-> FALSE, res |-> NoResult,
               same_intents |-> TRUE, same_escrows |-> TRUE, same_history |-> TRUE,
               same_config |-> TRUE, same_escrow_states |-> TRUE]
    /\ calls = [c \in Callers |-> IdleCall]
    /\ ledger_transfers = [i \in IntentIds |-> 0]
    /\ balance_notifications = [w \in {} |-> 0]
    /\ now = 0
    /\ alerts = [w \in NotifyWallets |-> <<>>]
    /\ notify_last = NotifyCall("init", "none", FALSE, 0, NoAlert("none"))
    /\ escrows = [e \in {DEMO_ESCROW} |-> DemoEscrow]
    /\ escrow_last = [op |-> "init", escrow_id |-> DEMO_ESCROW, pre_state |-> "absent",
                      raised |-> FALSE, names_state |-> "none", same_escrows |-> TRUE,
                      same_others |-> TRUE]
    /\ amount_last = [op |-> "init", escrow_id |-> DEMO_ESCROW, state |-> "absent",
                      principal |-> <<>>, res |-> <<>>]
    /\ reviews = MockReviews
    /\ disputes = <<>>
    /\ votes = <<>>
    /\ review_ids_by_agent = [a \in ReviewAgents |-> IF a = "GFey" THEN <<1>> ELSE <<2>>]
    /\ review_last = [op |-> "init", review_id |-> 0, dispute_id |-> 0, agent |-> "none",
                      min_reviews |-> 0, pre_status |-> "none", status |-> "none",
                      raised |-> FALSE, same_reviews |-> TRUE, same_disputes |-> TRUE,
                      same_index |-> TRUE,
                      res |-> [raised |-> FALSE, total_reviews |-> 0, average_rating |-> 0,
                               on_time_rate |-> 0, helpful_rate |-> 0,
                               quality_breakdown |-> [q \in Qualities |-> 0],
                               rating |-> "none"]]
    /\ pda_log = <<>>
    /\ engine_reviews = [a \in EngineAgents |-> <<>>]
    /\ engine_scores = [a \in EngineAgents |-> NewScore]

create_payment_intent(amount, from_wallet, to_wallet) ==
    IF AmountError(amount) # "none"
    THEN /\ UNCHANGED <<payment_intents, escrow_payments, payment_history, multisig_config>>
         /\ last' = Creation("create", amount, 0, "none", TRUE,
                             Failure(0, "none", AmountError(amount)))
    ELSE LET intent_id == Len(payment_intents) + 1 IN
         /\ Len(payment_intents) < MaxIntents
         /\ payment_intents' =
                Append(payment_intents, NewIntent(intent_id, amount, from_wallet, to_wallet, "none"))
         /\ UNCHANGED <<escrow_payments, payment_history, multisig_config>>
         /\ last' = Creation("create", amount, intent_id, "none", FALSE,
                             Success(intent_id, "none", "pending"))

\* Faulty variant of ExecutableStatuses: a failed intent may be tried again.
ExecutableStatuses_Retry == {"pending", "confirmed", "failed"}

\* The statuses execute_payment_intent accepts.
ExecutableStatuses == {"pending", "confirmed"}

\* Faulty variant of StatusOnTransferError: the intent is left as it was.
StatusOnTransferError_Stuck == "pending"

\* The status an intent is left in when the adapter's transfer raises.
StatusOnTransferError == "failed"

Payment(intent, signature) ==
    [from_wallet |-> intent.from_wallet, to_wallet |-> intent.to_wallet,
     amount |-> intent.amount, status |-> intent.status, signature |-> signature,
     created_at |-> intent.created_at, confirmed_at |-> intent.confirmed_at]

\* Faulty variant of Executed: the settlement signature is not recorded.
Executed_NoSignature(intent, signature) ==
    [intent EXCEPT !.status = "confirmed", !.executed_at = TRUE, !.confirmed_at = TRUE]

\* The intent after the assignments that follow the transfer; PROCESSING is
\* overwritten by CONFIRMED within the call. The receipt's status is not read.
Executed(intent, signature) ==
    LET processing == [intent EXCEPT !.status = "processing", !.executed_at = TRUE,
                                     !.signature = signature]
    IN [processing EXCEPT !.status = "confirmed", !.confirmed_at = TRUE]

\* Faulty variant of MultisigIncomplete: the collected signatures are not asked for.
MultisigIncomplete_Ignored(intent) == FALSE

\* The intent's metadata says multisig is required and holds no collected signature.
MultisigIncomplete(intent) == intent.requires_multisig /\ intent.signatures_collected = {}

\* execute_payment_intent as a function of the state: the new intents, the new
\* history, whether transfer was called, and the PaymentResult returned.
\* outcome and signature are what the adapter does if it is called.
ExecutePaymentIntent(intent_id, outcome, signature) ==
    IF intent_id \notin DOMAIN payment_intents
    THEN [intents |-> payment_intents, history |-> payment_history, transfer |-> FALSE,
          res |-> Failure(0, "none", "not found")]
    ELSE LET intent == payment_intents[intent_id] IN
         IF intent.status \notin ExecutableStatuses
         THEN [intents |-> payment_intents, history |-> payment_history, transfer |-> FALSE,
               res |-> Failure(intent_id, "none", "invalid state")]
         ELSE IF MultisigIncomplete(intent)
         THEN [intents |-> payment_intents, history |-> payment_history, transfer |-> FALSE,
               res |-> Failure(intent_id, "none", "multisig incomplete")]
         ELSE IF outcome = "raise"
         THEN [intents |-> [payment_intents EXCEPT ![intent_id].status = StatusOnTransferError],
               history |-> payment_history, transfer |-> TRUE,
               res |-> Failure(intent_id, "failed", "adapter error")]
         ELSE LET done == Executed(intent, signature) IN
              [intents |-> [payment_intents EXCEPT ![intent_id] = done],
               history |-> Append(payment_history, Payment(done, signature)),
               transfer |-> TRUE,
               res |-> Success(intent_id, signature, done.status)]

\* The model's bound on the history: a call that would make it longer than
\* MaxHistory records is not taken.
HistoryRoom(exec) == Len(exec.history) <= MaxHistory

execute_payment_intent(intent_id, outcome, signature) ==
    LET exec == ExecutePaymentIntent(intent_id, outcome, signature) IN
    /\ HistoryRoom(exec)
    /\ payment_intents' = exec.intents
    /\ payment_history' = exec.history
    /\ UNCHANGED <<escrow_payments, multisig_config>>
    /\ last' = Call("execute", intent_id, "none",
                    IF exec.transfer THEN outcome ELSE "none", FALSE, exec.transfer, exec.res)

cancel_payment_intent(intent_id) ==
    IF intent_id \notin DOMAIN payment_intents
    THEN /\ UNCHANGED <<payment_intents, escrow_payments, payment_history, multisig_config>>
         /\ last' = Call("cancel", intent_id, "none", "none", FALSE, FALSE,
                         Failure(0, "none", "not found"))
    ELSE IF payment_intents[intent_id].status # "pending"
    THEN /\ UNCHANGED <<payment_intents, escrow_payments, payment_history, multisig_config>>
         /\ last' = Call("cancel", intent_id, "none", "none", FALSE, FALSE,
                         Failure(intent_id, "none", "invalid state"))
    ELSE /\ payment_intents' = [payment_intents EXCEPT ![intent_id].status = "cancelled"]
         /\ UNCHANGED <<escrow_payments, payment_history, multisig_config>>
         /\ last' = Call("cancel", intent_id, "none", "none", FALSE, FALSE,
                         Success(intent_id, "none", "cancelled"))

\* ------------------------------------- execute_payment_intent, interleaved
\* execute_payment_intent takes no lock, so calls made from several threads
\* interleave between its statements. A call is modelled in the three steps in
\* which it touches shared state: it reads the intent's status and validates,
\* it asks the adapter for the transfer, and it writes status and history.
ServiceFrame ==
    <<escrow_payments, multisig_config, last, notifyVars, legacyVars, amountVars, reviewVars,
      pdaVars, reputationVars>>

\* Lookup and validation: the caller goes on to the transfer, or returns a failure.
execute_read_status(c, intent_id) ==
    /\ calls[c].pc = "idle"
    /\ LET exec == ExecutePaymentIntent(intent_id, "confirmed", "none")
           call == [IdleCall EXCEPT !.intent_id = intent_id,
                                    !.observed = IntentStatus(intent_id)]
       IN calls' = [calls EXCEPT ![c] =
                       IF exec.transfer
                       THEN [call EXCEPT !.pc = "transfer"]
                       ELSE [call EXCEPT !.pc = "done", !.res = exec.res]]
    /\ UNCHANGED <<payment_intents, payment_history, ledger_transfers, ServiceFrame>>

\* self.usdc_client.transfer(...): it returns a result, or raises and the
\* handler stores FAILED.
execute_transfer(c, outcome, signature) ==
    LET intent_id == calls[c].intent_id IN
    /\ calls[c].pc = "transfer"
    /\ ledger_transfers[intent_id] < MaxTransfers
    /\ ledger_transfers' = [ledger_transfers EXCEPT ![intent_id] = @ + 1]
    /\ IF outcome = "raise"
       THEN /\ payment_intents' =
                   [payment_intents EXCEPT ![intent_id].status = StatusOnTransferError]
            /\ calls' = [calls EXCEPT ![c].pc = "done",
                                      ![c].res = Failure(intent_id, "failed", "adapter error")]
       ELSE /\ calls' = [calls EXCEPT ![c].pc = "write", ![c].signature = signature]
            /\ UNCHANGED payment_intents
    /\ UNCHANGED <<payment_history, ServiceFrame>>

\* The assignments to the intent, and the Payment record appended.
execute_write_status(c) ==
    LET intent_id == calls[c].intent_id
        done == Executed(payment_intents[intent_id], calls[c].signature)
    IN /\ calls[c].pc = "write"
       /\ Len(payment_history) < MaxHistory
       /\ payment_intents' = [payment_intents EXCEPT ![intent_id] = done]
       /\ payment_history' = Append(payment_history, Payment(done, calls[c].signature))
       /\ calls' = [calls EXCEPT ![c].pc = "done",
                                 ![c].res = Success(intent_id, calls[c].signature, done.status)]
       /\ UNCHANGED <<ledger_transfers, ServiceFrame>>

\* The PaymentResult is returned; the thread may call again.
execute_return(c) ==
    /\ calls[c].pc = "done"
    /\ calls' = [calls EXCEPT ![c] = IdleCall]
    /\ UNCHANGED <<payment_intents, payment_history, ledger_transfers, ServiceFrame>>

\* --------------------------------------------------------- payment history
DEFAULT_HISTORY_LIMIT == 100

\* payments.sort(key=created_at, reverse=True): a stable sort, so records with
\* equal created_at keep the order in which they were appended.
RECURSIVE InsertByCreatedDesc(_, _)
InsertByCreatedDesc(sorted, p) ==
    IF sorted = <<>> THEN <<p>>
    ELSE IF Head(sorted).created_at >= p.created_at
         THEN <<Head(sorted)>> \o InsertByCreatedDesc(Tail(sorted), p)
         ELSE <<p>> \o sorted

RECURSIVE SortByCreatedDesc(_)
SortByCreatedDesc(payments) ==
    IF payments = <<>> THEN <<>>
    ELSE InsertByCreatedDesc(SortByCreatedDesc(SubSeq(payments, 1, Len(payments) - 1)),
                             payments[Len(payments)])

\* Faulty variant of GetPaymentHistory: only the sender's records are selected.
GetPaymentHistory_SenderOnly(history, wallet_address, limit, status_filter) ==
    LET ofWallet(p) == p.from_wallet = wallet_address
        hasStatus(p) == status_filter = "none" \/ p.status = status_filter
        payments == SortByCreatedDesc(SelectSeq(SelectSeq(history, ofWallet), hasStatus))
    IN SubSeq(payments, 1, IF Len(payments) < limit THEN Len(payments) ELSE limit)

\* get_payment_history over a given history list; status_filter "none" is None.
GetPaymentHistory(history, wallet_address, limit, status_filter) ==
    LET ofWallet(p) == p.from_wallet = wallet_address \/ p.to_wallet = wallet_address
        hasStatus(p) == status_filter = "none" \/ p.status = status_filter
        payments == SortByCreatedDesc(SelectSeq(SelectSeq(history, ofWallet), hasStatus))
    IN SubSeq(payments, 1, IF Len(payments) < limit THEN Len(payments) ELSE limit)

get_payment_history(wallet_address, limit, status_filter) ==
    GetPaymentHistory(payment_history, wallet_address, limit, status_filter)

\* -------------------------------------------------------- escrow payments
NewEscrowPayment(escrow_id, intent_id, amount, from_wallet, to_wallet) ==
    [escrow_id |-> escrow_id, payment_intent_id |-> intent_id, amount |-> amount,
     from_wallet |-> from_wallet, to_wallet |-> to_wallet, status |-> "pending",
     funded_at |-> FALSE, released_at |-> FALSE, refunded_at |-> FALSE, signatures |-> {}]

\* self._escrow_payments[escrow_id] = escrow_payment
StoreEscrow(escrow_id, escrow) ==
    [e \in DOMAIN escrow_payments \cup {escrow_id} |->
        IF e = escrow_id THEN escrow ELSE escrow_payments[e]]

execute_escrow_payment(escrow_id, amount, from_wallet, to_wallet) ==
    IF AmountError(amount) # "none"
    THEN /\ UNCHANGED <<payment_intents, escrow_payments, payment_history, multisig_config>>
         /\ last' = Creation("execute_escrow", amount, 0, escrow_id, TRUE,
                             Failure(0, "none", AmountError(amount)))
    ELSE LET intent_id == Len(payment_intents) + 1 IN
         /\ Len(payment_intents) < MaxIntents
         /\ payment_intents' =
                Append(payment_intents,
                       NewIntent(intent_id, amount, from_wallet, to_wallet, escrow_id))
         /\ escrow_payments' =
                StoreEscrow(escrow_id,
                            NewEscrowPayment(escrow_id, intent_id, amount, from_wallet, to_wallet))
         /\ UNCHANGED <<payment_history, multisig_config>>
         /\ last' = Creation("execute_escrow", amount, intent_id, escrow_id, FALSE,
                             Success(intent_id, "none", "pending"))

fund_escrow_payment(escrow_id, outcome, signature) ==
    IF escrow_id \notin DOMAIN escrow_payments
    THEN /\ UNCHANGED <<payment_intents, escrow_payments, payment_history, multisig_config>>
         /\ last' = Call("fund", 0, escrow_id, "none", FALSE, FALSE,
                         Failure(0, "none", "not found"))
    ELSE LET escrow == escrow_payments[escrow_id] IN
         IF escrow.status # "pending"
         THEN /\ UNCHANGED <<payment_intents, escrow_payments, payment_history, multisig_config>>
              /\ last' = Call("fund", escrow.payment_intent_id, escrow_id, "none", FALSE, FALSE,
                              Failure(0, "none", "invalid state"))
         ELSE LET exec == ExecutePaymentIntent(escrow.payment_intent_id, outcome, signature) IN
              /\ HistoryRoom(exec)
              /\ payment_intents' = exec.intents
              /\ payment_history' = exec.history
              /\ escrow_payments' =
                     IF exec.res.success
                     THEN [escrow_payments EXCEPT ![escrow_id].status = "funded",
                                                  ![escrow_id].funded_at = TRUE]
                     ELSE escrow_payments
              /\ UNCHANGED multisig_config
              /\ last' = Call("fund", escrow.payment_intent_id, escrow_id,
                              IF exec.transfer THEN outcome ELSE "none", FALSE,
                              exec.transfer, exec.res)

\* Faulty variant of is_fully_signed: one signature is enough.
is_fully_signed_One(escrow) == Cardinality(escrow.signatures) >= 1

\* EscrowPayment.is_fully_signed
is_fully_signed(escrow) == Cardinality(escrow.signatures) >= FULLY_SIGNED_COUNT

\* Faulty variant of RecordSignature: the release time is stamped as well.
RecordSignature_Stamped(escrow, authority, given) ==
    IF given THEN [escrow EXCEPT !.signatures = @ \cup {authority}, !.released_at = TRUE]
    ELSE escrow

\* if signature: escrow.signatures[authority] = signature
\* given: whether the optional signature argument is a non-empty string
RecordSignature(escrow, authority, given) ==
    IF given THEN [escrow EXCEPT !.signatures = @ \cup {authority}] ELSE escrow

release_escrow_payment(escrow_id, authority, given) ==
    IF escrow_id \notin DOMAIN escrow_payments
    THEN /\ UNCHANGED <<payment_intents, escrow_payments, payment_history, multisig_config>>
         /\ last' = Call("release", 0, escrow_id, "none", FALSE, FALSE,
                         Failure(0, "none", "not found"))
    ELSE LET escrow == escrow_payments[escrow_id] IN
         IF escrow.status # "funded"
         THEN /\ UNCHANGED <<payment_intents, escrow_payments, payment_history, multisig_config>>
              /\ last' = Call("release", escrow.payment_intent_id, escrow_id, "none", FALSE, FALSE,
                              Failure(0, "none", "invalid state"))
         ELSE LET signed == RecordSignature(escrow, authority, given)
                  intent_id == escrow.payment_intent_id
              IN IF /\ intent_id \in DOMAIN payment_intents
                    /\ payment_intents[intent_id].requires_multisig
                    /\ ~is_fully_signed(signed)
                 THEN /\ escrow_payments' = [escrow_payments EXCEPT ![escrow_id] = signed]
                      /\ UNCHANGED <<payment_intents, payment_history, multisig_config>>
                      /\ last' = Call("release", intent_id, escrow_id, "none", FALSE, FALSE,
                                      [Failure(intent_id, "none", "need signatures")
                                          EXCEPT !.needed = 2 - Cardinality(signed.signatures)])
                 ELSE /\ escrow_payments' =
                             [escrow_payments EXCEPT
                                 ![escrow_id] = [signed EXCEPT !.status = "released",
                                                               !.released_at = TRUE]]
                      /\ UNCHANGED <<payment_intents, payment_history, multisig_config>>
                      /\ last' = Call("release", intent_id, escrow_id, "none", FALSE, FALSE,
                                      Success(intent_id, "none", "finalized"))

\* Faulty variant of CanRefund: an unfunded escrow is refunded too.
CanRefund_Pending(escrow) == escrow.status \in {"funded", "pending"}

\* Faulty variant of CanRefund: a released escrow is refunded too.
CanRefund_Released(escrow) == escrow.status \in {"funded", "released"}

\* The escrows refund_escrow_payment accepts.
CanRefund(escrow) == escrow.status = "funded"

refund_escrow_payment(escrow_id) ==
    IF escrow_id \notin DOMAIN escrow_payments
    THEN /\ UNCHANGED <<payment_intents, escrow_payments, payment_history, multisig_config>>
         /\ last' = Call("refund", 0, escrow_id, "none", FALSE, FALSE,
                         Failure(0, "none", "not found"))
    ELSE LET escrow == escrow_payments[escrow_id] IN
         IF ~CanRefund(escrow)
         THEN /\ UNCHANGED <<payment_intents, escrow_payments, payment_history, multisig_config>>
              /\ last' = Call("refund", escrow.payment_intent_id, escrow_id, "none", FALSE, FALSE,
                              Failure(0, "none", "invalid state"))
         ELSE LET intent_id == escrow.payment_intent_id IN
              /\ escrow_payments' = [escrow_payments EXCEPT ![escrow_id].status = "refunded",
                                                            ![escrow_id].refunded_at = TRUE]
              /\ payment_intents' =
                     IF intent_id \in DOMAIN payment_intents
                     THEN [payment_intents EXCEPT ![intent_id].status = "cancelled"]
                     ELSE payment_intents
              /\ UNCHANGED <<payment_history, multisig_config>>
              /\ last' = Call("refund", intent_id, escrow_id, "none", FALSE, FALSE,
                              Success(intent_id, "none", "cancelled"))

\* ------------------------------ fund, release and refund, interleaved
\* The three escrow operations take no lock either. A call is modelled in the
\* steps in which it touches shared state: the lookup and the status check
\* (release also records the given signature and counts), for fund the
\* execute_payment_intent it calls, and the assignments to the escrow (refund:
\* and to its intent). The assignments are made to the EscrowPayment object the
\* call looked up, which the dict still holds.
\* op: "fund", "release" or "refund"; authority and given are release's arguments.
escrow_check(c, op, escrow_id, authority, given) ==
    LET call == [IdleCall EXCEPT !.escrow_id = escrow_id]
        failed(error) == [call EXCEPT !.pc = "done", !.res = Failure(0, "none", error)]
    IN /\ calls[c].pc = "idle"
       /\ IF escrow_id \notin DOMAIN escrow_payments
          THEN /\ calls' = [calls EXCEPT ![c] = failed("not found")]
               /\ UNCHANGED escrow_payments
          ELSE LET escrow == escrow_payments[escrow_id]
                   intent_id == escrow.payment_intent_id
                   signed == RecordSignature(escrow, authority, given)
               IN IF op = "fund"
                  THEN /\ calls' = [calls EXCEPT ![c] =
                                       IF escrow.status # "pending"
                                       THEN failed("invalid state")
                                       ELSE [call EXCEPT !.pc = "fund",
                                                         !.intent_id = intent_id]]
                       /\ UNCHANGED escrow_payments
                  ELSE IF op = "refund"
                  THEN /\ calls' = [calls EXCEPT ![c] =
                                       IF ~CanRefund(escrow)
                                       THEN failed("invalid state")
                                       ELSE [call EXCEPT !.pc = "refund",
                                                         !.intent_id = intent_id]]
                       /\ UNCHANGED escrow_payments
                  ELSE IF escrow.status # "funded"
                  THEN /\ calls' = [calls EXCEPT ![c] = failed("invalid state")]
                       /\ UNCHANGED escrow_payments
                  ELSE /\ escrow_payments' = [escrow_payments EXCEPT ![escrow_id] = signed]
                       /\ calls' = [calls EXCEPT ![c] =
                                       IF /\ intent_id \in DOMAIN payment_intents
                                          /\ payment_intents[intent_id].requires_multisig
                                          /\ ~is_fully_signed(signed)
                                       THEN [call EXCEPT
                                               !.pc = "done",
                                               !.res = [Failure(intent_id, "none",
                                                                "need signatures")
                                                          EXCEPT !.needed =
                                                            2 - Cardinality(signed.signatures)]]
                                       ELSE [call EXCEPT !.pc = "release",
                                                         !.intent_id = intent_id]]
       /\ UNCHANGED <<payment_intents, payment_history, ledger_transfers, multisig_config, last,
                    notifyVars, legacyVars, amountVars, reviewVars, pdaVars, reputationVars>>

\* result = self.execute_payment_intent(escrow.payment_intent_id), the adapter
\* confirming the transfer it is asked for.
fund_execute(c, signature) ==
    LET intent_id == calls[c].intent_id
        exec == ExecutePaymentIntent(intent_id, "confirmed", signature)
    IN /\ calls[c].pc = "fund"
       /\ HistoryRoom(exec)
       /\ exec.transfer => ledger_transfers[intent_id] < MaxTransfers
       /\ payment_intents' = exec.intents
       /\ payment_history' = exec.history
       /\ ledger_transfers' = IF exec.transfer
                              THEN [ledger_transfers EXCEPT ![intent_id] = @ + 1]
                              ELSE ledger_transfers
       /\ calls' = [calls EXCEPT ![c].pc = "funded", ![c].res = exec.res]
       /\ UNCHANGED <<escrow_payments, multisig_config, last,
                    notifyVars, legacyVars, amountVars, reviewVars, pdaVars, reputationVars>>

\* The assignments that end the call, and the PaymentResult it returns.
escrow_update(c) ==
    LET escrow_id == calls[c].escrow_id
        intent_id == calls[c].intent_id
    IN /\ calls[c].pc \in {"funded", "release", "refund"}
       /\ escrow_id \in DOMAIN escrow_payments
       /\ escrow_payments' =
              IF calls[c].pc = "funded"
              THEN IF calls[c].res.success
                   THEN [escrow_payments EXCEPT ![escrow_id].status = "funded",
                                                ![escrow_id].funded_at = TRUE]
                   ELSE escrow_payments
              ELSE IF calls[c].pc = "release"
              THEN [escrow_payments EXCEPT ![escrow_id].status = "released",
                                           ![escrow_id].released_at = TRUE]
              ELSE [escrow_payments EXCEPT ![escrow_id].status = "refunded",
                                           ![escrow_id].refunded_at = TRUE]
       /\ payment_intents' =
              IF calls[c].pc = "refund" /\ intent_id \in DOMAIN payment_intents
              THEN [payment_intents EXCEPT ![intent_id].status = "cancelled"]
              ELSE payment_intents
       /\ calls' = [calls EXCEPT
                       ![c].pc = "done",
                       ![c].res = IF calls[c].pc = "funded" THEN calls[c].res
                                  ELSE IF calls[c].pc = "release"
                                  THEN Success(intent_id, "none", "finalized")
                                  ELSE Success(intent_id, "none", "cancelled")]
       /\ UNCHANGED <<payment_history, ledger_transfers, multisig_config, last,
                    notifyVars, legacyVars, amountVars, reviewVars, pdaVars, reputationVars>>

\* --------------------------------------------------- balance notifications
\* BalanceNotification(...) as register_balance_notification constructs it.
NewNotification(threshold_usd, callback_url, auto_reload, auto_reload_amount) ==
    [threshold_usd |-> threshold_usd, callback_url |-> callback_url,
     auto_reload_enabled |-> auto_reload,
     auto_reload_amount |-> IF auto_reload_amount = 0 THEN DEFAULT_AUTO_RELOAD_AMOUNT
                            ELSE auto_reload_amount,
     auto_reload_max_daily |-> 0,
     last_notified_at |-> NotSet, last_reloaded_at |-> NotSet, reload_count_today |-> 0]

\* self._balance_notifications[wallet_address] = notification
StoreNotification(wallet, notification) ==
    [w \in DOMAIN balance_notifications \cup {wallet} |->
        IF w = wallet THEN notification ELSE balance_notifications[w]]

FrameOfNotifications ==
    <<payment_intents, escrow_payments, payment_history, multisig_config, last,
      concurrentVars, legacyVars, amountVars, reviewVars, pdaVars, reputationVars>>

register_balance_notification(wallet, threshold_usd, callback_url, auto_reload, amount) ==
    /\ balance_notifications' =
           StoreNotification(wallet, NewNotification(threshold_usd, callback_url,
                                                     auto_reload, amount))
    /\ notify_last' = NotifyCall("register", wallet, FALSE, 0, NoAlert("none"))
    /\ UNCHANGED <<now, alerts, FrameOfNotifications>>

\* Faulty variant of ExecuteAutoReload: the reload amount is spent from the record.
ExecuteAutoReload_Spends(notification) ==
    [notification EXCEPT !.last_reloaded_at = now, !.reload_count_today = @ + 1,
                         !.auto_reload_amount = 0]

\* _execute_auto_reload: the notification after the call.
ExecuteAutoReload(notification) ==
    LET reloaded_today == /\ notification.last_reloaded_at # NotSet
                          /\ DateOf(notification.last_reloaded_at) = DateOf(now)
    IN IF reloaded_today /\
          notification.reload_count_today >= notification.auto_reload_max_daily
       THEN notification
       ELSE IF reloaded_today
       THEN notification
       ELSE [notification EXCEPT !.last_reloaded_at = now, !.reload_count_today = @ + 1]

\* The last notification was sent less than an hour ago and force is not set.
RateLimited(notification, force) ==
    /\ notification.last_notified_at # NotSet
    /\ ~force
    /\ now - notification.last_notified_at < RATE_LIMIT_HOURS * TICKS_PER_HOUR

\* balance: what the adapter's get_balance returns in this call.
check_balance_and_notify(wallet, force, balance) ==
    IF wallet \notin DOMAIN balance_notifications
    THEN /\ notify_last' = NotifyCall("check", wallet, force, 0,
                                      NoAlert("No notification registered"))
         /\ UNCHANGED <<balance_notifications, now, alerts, FrameOfNotifications>>
    ELSE LET notification == balance_notifications[wallet] IN
         IF balance >= notification.threshold_usd
         THEN /\ notify_last' = NotifyCall("check", wallet, force, balance,
                                           NoAlert("Balance above threshold"))
              /\ UNCHANGED <<balance_notifications, now, alerts, FrameOfNotifications>>
         ELSE IF RateLimited(notification, force)
         THEN /\ notify_last' = NotifyCall("check", wallet, force, balance,
                                           NoAlert("Rate limited"))
              /\ UNCHANGED <<balance_notifications, now, alerts, FrameOfNotifications>>
         ELSE LET notified == [notification EXCEPT !.last_notified_at = now] IN
              /\ Len(alerts[wallet]) < MaxAlerts
              /\ alerts' = [alerts EXCEPT ![wallet] =
                               Append(@, [at |-> now, forced |-> force])]
              /\ balance_notifications' =
                     [balance_notifications EXCEPT ![wallet] =
                         IF notification.auto_reload_enabled
                         THEN ExecuteAutoReload(notified) ELSE notified]
              /\ notify_last' = NotifyCall("check", wallet, force, balance,
                                           AlertSent(notification.auto_reload_enabled))
              /\ UNCHANGED <<now, FrameOfNotifications>>

\* Time passes between two calls.
time_passes(t) ==
    /\ t > now
    /\ now' = t
    /\ UNCHANGED <<balance_notifications, alerts, notify_last, FrameOfNotifications>>

\* ------------------------------------------------------ legacy EscrowClient
FrameOfLegacy ==
    <<payment_intents, escrow_payments, payment_history, multisig_config, last,
      concurrentVars, notifyVars, amountVars, reviewVars, pdaVars, reputationVars>>

\* raise EscrowError(...): nothing is changed.
LegacyRaise(op, escrow_id, names_state) ==
    /\ UNCHANGED escrows
    /\ escrow_last' = LegacyCall(op, escrow_id, TRUE, names_state)
    /\ UNCHANGED FrameOfLegacy

\* The call returns the escrow after storing it as given.
LegacyStore(op, escrow_id, escrow) ==
    /\ escrows' = [e \in DOMAIN escrows \cup {escrow_id} |->
                      IF e = escrow_id THEN escrow ELSE escrows[e]]
    /\ escrow_last' = LegacyCall(op, escrow_id, FALSE, "none")
    /\ UNCHANGED FrameOfLegacy

create_escrow(amount) ==
    LET escrow_id == Cardinality(DOMAIN escrows) IN
    /\ escrow_id \in LegacyIds
    /\ LegacyStore("create", escrow_id, NewEscrow(amount, "created", FALSE))

fund_escrow(escrow_id) ==
    IF escrow_id \notin DOMAIN escrows THEN LegacyRaise("fund", escrow_id, "none")
    ELSE IF escrows[escrow_id].state # "created"
    THEN LegacyRaise("fund", escrow_id, "created")
    ELSE LegacyStore("fund", escrow_id,
                     [escrows[escrow_id] EXCEPT !.state = "funded", !.funded_at = TRUE])

activate_escrow(escrow_id) ==
    IF escrow_id \notin DOMAIN escrows THEN LegacyRaise("activate", escrow_id, "none")
    ELSE IF escrows[escrow_id].state # "funded"
    THEN LegacyRaise("activate", escrow_id, "funded")
    ELSE LegacyStore("activate", escrow_id, [escrows[escrow_id] EXCEPT !.state = "active"])

complete_escrow(escrow_id, deliverable_hash) ==
    IF escrow_id \notin DOMAIN escrows THEN LegacyRaise("complete", escrow_id, "none")
    ELSE IF escrows[escrow_id].state # "active"
    THEN LegacyRaise("complete", escrow_id, "active")
    ELSE LegacyStore("complete", escrow_id,
                     [escrows[escrow_id] EXCEPT !.state = "completed", !.completed_at = TRUE,
                                                !.actual_deliverable_hash = deliverable_hash])

\* Faulty variant of ReleasableStates: a funded escrow is released too.
ReleasableStates_Funded == {"completed", "active", "funded"}

\* The states release_escrow accepts.
ReleasableStates == {"completed", "active"}

release_escrow(escrow_id) ==
    IF escrow_id \notin DOMAIN escrows THEN LegacyRaise("release", escrow_id, "none")
    ELSE IF escrows[escrow_id].state \notin ReleasableStates
    THEN LegacyRaise("release", escrow_id, escrows[escrow_id].state)
    ELSE LegacyStore("release", escrow_id,
                     [escrows[escrow_id] EXCEPT !.state = "released", !.released_at = TRUE])

refund_escrow(escrow_id) ==
    IF escrow_id \notin DOMAIN escrows THEN LegacyRaise("refund", escrow_id, "none")
    ELSE IF escrows[escrow_id].state \notin {"funded", "active"}
    THEN LegacyRaise("refund", escrow_id, escrows[escrow_id].state)
    ELSE LegacyStore("refund", escrow_id,
                     [escrows[escrow_id] EXCEPT !.state = "refunded", !.refunded_at = TRUE])

dispute_escrow(escrow_id) ==
    IF escrow_id \notin DOMAIN escrows THEN LegacyRaise("dispute", escrow_id, "none")
    ELSE IF escrows[escrow_id].state \notin {"active", "completed"}
    THEN LegacyRaise("dispute", escrow_id, escrows[escrow_id].state)
    ELSE LegacyStore("dispute", escrow_id,
                     [escrows[escrow_id] EXCEPT !.state = "disputed", !.dispute_reason = TRUE])

\* A resolution other than "released", "refunded" and "split" changes no state.
Resolved(escrow, resolution) ==
    LET settled ==
            IF resolution \in {"released", "split"}
            THEN [escrow EXCEPT !.state = "released", !.released_at = TRUE]
            ELSE IF resolution = "refunded"
            THEN [escrow EXCEPT !.state = "refunded", !.refunded_at = TRUE]
            ELSE escrow
    IN [settled EXCEPT !.dispute_resolved_at = TRUE, !.dispute_resolution = resolution]

resolve_dispute(escrow_id, resolution) ==
    IF escrow_id \notin DOMAIN escrows THEN LegacyRaise("resolve", escrow_id, "none")
    ELSE IF escrows[escrow_id].state # "disputed"
    THEN LegacyRaise("resolve", escrow_id, "disputed")
    ELSE LegacyStore("resolve", escrow_id, Resolved(escrows[escrow_id], resolution))

\* Faulty variant of CancellableStates: a funded escrow is cancelled too.
CancellableStates_Funded == {"created", "funded"}

\* The states cancel_escrow accepts.
CancellableStates == {"created"}

cancel_escrow(escrow_id) ==
    IF escrow_id \notin DOMAIN escrows THEN LegacyRaise("cancel", escrow_id, "none")
    ELSE IF escrows[escrow_id].state \notin CancellableStates
    THEN LegacyRaise("cancel", escrow_id, escrows[escrow_id].state)
    ELSE LegacyStore("cancel", escrow_id, [escrows[escrow_id] EXCEPT !.state = "cancelled"])

\* ------------------------------------------------- legacy escrow amounts
\* What the amount queries leave alone: everything but amount_last.
FrameOfAmounts ==
    <<payment_intents, escrow_payments, payment_history, multisig_config, last,
      concurrentVars, notifyVars, legacyVars, reviewVars, pdaVars, reputationVars>>

\* An amount query as its caller sees it: the escrow's state and principal
\* (the terms' amount) at the call, and the amount returned.
AmountCall(op, escrow_id, res) ==
    [op |-> op, escrow_id |-> escrow_id, state |-> LegacyState(escrow_id),
     principal |-> IF escrow_id \in DOMAIN escrows THEN escrows[escrow_id].amount ELSE <<>>,
     res |-> res]

ReleaseAmount(escrow_id) ==
    IF escrow_id \in DOMAIN escrows THEN escrows[escrow_id].amount ELSE Wide(0)

\* int(escrow.terms.amount * 0.99): the amount is converted to a float, the
\* product is a float, and int() cuts its fraction off.
RefundAmount(escrow_id) ==
    IF escrow_id \in DOMAIN escrows
    THEN IntOf(FloatTimes(ToDouble(escrows[escrow_id].amount), REFUND_RATE))
    ELSE Wide(0)

release_amount_for_escrow(escrow_id) ==
    /\ amount_last' = AmountCall("release_amount", escrow_id, ReleaseAmount(escrow_id))
    /\ UNCHANGED FrameOfAmounts

refund_amount_for_escrow(escrow_id) ==
    /\ amount_last' = AmountCall("refund_amount", escrow_id, RefundAmount(escrow_id))
    /\ UNCHANGED FrameOfAmounts

\* ----------------------------------------------------------- review service
\* What the review service leaves alone: everything but its own collections.
FrameOfReviews ==
    <<payment_intents, escrow_payments, payment_history, multisig_config, last,
      concurrentVars, notifyVars, legacyVars, amountVars, pdaVars, reputationVars>>

RECURSIVE SumOf(_)
SumOf(numbers) == IF numbers = <<>> THEN 0 ELSE Head(numbers) + SumOf(Tail(numbers))

\* round(n / d, digits) on the exact quotient: to the nearest, ties to even
RoundHalfEven(n, d) ==
    LET q == n \div d
        r == n % d
    IN IF 2 * r < d THEN q
       ELSE IF 2 * r > d THEN q + 1
       ELSE IF q % 2 = 0 THEN q ELSE q + 1

\* Faulty variant of GetAgentReviews: every stored review of the agent is
\* listed, whether it is in the agent's list of ids or not.
GetAgentReviews_AllStored(revs, index, agent_address, status, limit) ==
    LET ids == SelectSeq([i \in 1..Cardinality(DOMAIN revs) |-> i],
                         LAMBDA rid : revs[rid].provider = agent_address)
        listed(rid) == status = "none" \/ revs[rid].status = status
        found == SelectSeq(ids, listed)
        sorted == SortByCreatedDesc([i \in 1..Len(found) |->
                                        [review_id |-> found[i]] @@ revs[found[i]]])
    IN SubSeq(sorted, 1, IF Len(sorted) < limit THEN Len(sorted) ELSE limit)

\* get_agent_reviews over given reviews and lists of ids; status "none" is
\* None. The list is walked entry by entry, so an id that is listed twice
\* yields its review twice.
GetAgentReviews(revs, index, agent_address, status, limit) ==
    LET ids == IF agent_address \in DOMAIN index THEN index[agent_address] ELSE <<>>
        listed(rid) == /\ rid \in DOMAIN revs
                       /\ status = "none" \/ revs[rid].status = status
        found == SelectSeq(ids, listed)
        sorted == SortByCreatedDesc([i \in 1..Len(found) |->
                                        [review_id |-> found[i]] @@ revs[found[i]]])
    IN SubSeq(sorted, 1, IF Len(sorted) < limit THEN Len(sorted) ELSE limit)

\* The dict calculate_agent_rating returns (or ZeroDivisionError raised):
\* average_rating in hundredths, the rates in tenths of a percent.
RatingSummary(total, average, on_time, helpful, breakdown, rating) ==
    [raised |-> FALSE, total_reviews |-> total, average_rating |-> average,
     on_time_rate |-> on_time, helpful_rate |-> helpful, quality_breakdown |-> breakdown,
     rating |-> rating]

CalculateAgentRating(revs, index, agent_address, min_reviews) ==
    LET found == GetAgentReviews(revs, index, agent_address, "submitted", DEFAULT_REVIEW_LIMIT)
        n == Len(found)
        ratings == SumOf([i \in 1..n |-> found[i].rating])
        on_time == Cardinality({i \in 1..n : found[i].completed_on_time})
        helpful == SumOf([i \in 1..n |-> found[i].helpful_votes])
        total_votes == helpful + SumOf([i \in 1..n |-> found[i].unhelpful_votes])
        nothing == [q \in Qualities |-> 0]
    IN IF n < min_reviews
       THEN RatingSummary(n, 0, 0, 0, nothing, "insufficient_reviews")
       ELSE IF n = 0
       THEN [RatingSummary(0, 0, 0, 0, nothing, "none") EXCEPT !.raised = TRUE]
       ELSE RatingSummary(
                n, RoundHalfEven(ratings * 100, n), RoundHalfEven(on_time * 1000, n),
                IF total_votes > 0 THEN RoundHalfEven(helpful * 1000, total_votes) ELSE 0,
                [q \in Qualities |-> Cardinality({i \in 1..n : found[i].output_quality = q})],
                IF ratings * 10 >= 45 * n THEN "excellent"
                ELSE IF ratings * 10 >= 35 * n THEN "good"
                ELSE IF ratings * 10 >= 25 * n THEN "average"
                ELSE "needs_work")

\* A call as its caller sees it: the review's status before and after, whether
\* ValueError was raised, which collections are as they were, and the summary
\* returned.
ReviewCall(op, review_id, dispute_id, raised) ==
    [op |-> op, review_id |-> review_id, dispute_id |-> dispute_id, agent |-> "none",
     min_reviews |-> 0, pre_status |-> ReviewStatusOf(review_id),
     status |-> IF review_id \in DOMAIN reviews' THEN reviews'[review_id].status ELSE "none",
     raised |-> raised,
     same_reviews |-> reviews' = reviews,
     same_disputes |-> disputes' = disputes,
     same_index |-> review_ids_by_agent' = review_ids_by_agent,
     res |-> RatingSummary(0, 0, 0, 0, [q \in Qualities |-> 0], "none")]

\* raise ValueError(...): nothing is changed.
ReviewRaise(op, review_id, dispute_id) ==
    /\ UNCHANGED <<reviews, disputes, votes, review_ids_by_agent>>
    /\ review_last' = ReviewCall(op, review_id, dispute_id, TRUE)
    /\ UNCHANGED FrameOfReviews

create_review(provider, rating, completed_on_time, output_quality) ==
    LET review_id == Cardinality(DOMAIN reviews) + 1 IN
    /\ review_id \in ReviewIds
    /\ reviews' = [r \in DOMAIN reviews \cup {review_id} |->
                      IF r = review_id
                      THEN NewReview(provider, rating, completed_on_time, output_quality,
                                     review_id, "pending")
                      ELSE reviews[r]]
    /\ UNCHANGED <<disputes, votes, review_ids_by_agent>>
    /\ review_last' = ReviewCall("create", review_id, 0, FALSE)
    /\ UNCHANGED FrameOfReviews

submit_review(review_id) ==
    IF review_id \notin DOMAIN reviews THEN ReviewRaise("submit", review_id, 0)
    ELSE LET provider == reviews[review_id].provider IN
         /\ Len(review_ids_by_agent[provider]) < MaxIndexed
         /\ reviews' = [reviews EXCEPT ![review_id].status = "submitted"]
         /\ review_ids_by_agent' =
                [review_ids_by_agent EXCEPT ![provider] = Append(@, review_id)]
         /\ UNCHANGED <<disputes, votes>>
         /\ review_last' = ReviewCall("submit", review_id, 0, FALSE)
         /\ UNCHANGED FrameOfReviews

file_dispute(review_id) ==
    IF review_id \notin DOMAIN reviews THEN ReviewRaise("file_dispute", review_id, 0)
    ELSE IF reviews[review_id].status # "submitted"
    THEN ReviewRaise("file_dispute", review_id, 0)
    ELSE /\ Len(disputes) < MaxDisputes
         /\ disputes' = Append(disputes, [review_id |-> review_id, resolved |-> FALSE,
                                          resolution |-> "none"])
         /\ reviews' = [reviews EXCEPT ![review_id].status = "disputed",
                                       ![review_id].dispute_reason = TRUE]
         /\ UNCHANGED <<votes, review_ids_by_agent>>
         /\ review_last' = ReviewCall("file_dispute", review_id, Len(disputes) + 1, FALSE)
         /\ UNCHANGED FrameOfReviews

\* ReviewService.resolve_dispute (resolver_comments left at its default, None)
ReviewService_resolve_dispute(dispute_id, resolution) ==
    IF dispute_id \notin DOMAIN disputes THEN ReviewRaise("resolve_dispute", 0, dispute_id)
    ELSE IF disputes[dispute_id].resolved
    THEN ReviewRaise("resolve_dispute", disputes[dispute_id].review_id, dispute_id)
    ELSE LET review_id == disputes[dispute_id].review_id IN
         /\ disputes' = [disputes EXCEPT ![dispute_id].resolved = TRUE,
                                         ![dispute_id].resolution = resolution]
         /\ reviews' = [reviews EXCEPT ![review_id].status = "resolved",
                                       ![review_id].resolution = resolution,
                                       ![review_id].dispute_resolved_at = TRUE,
                                       ![review_id].dispute_comments = Append(@, "")]
         /\ UNCHANGED <<votes, review_ids_by_agent>>
         /\ review_last' = ReviewCall("resolve_dispute", review_id, dispute_id, FALSE)
         /\ UNCHANGED FrameOfReviews

\* Faulty variant of Voted: every vote is counted as helpful.
Voted_AlwaysHelpful(review, helpful) == [review EXCEPT !.helpful_votes = @ + 1]

\* The review after a vote: one of its two counters is incremented.
Voted(review, helpful) ==
    IF helpful THEN [review EXCEPT !.helpful_votes = @ + 1]
    ELSE [review EXCEPT !.unhelpful_votes = @ + 1]

\* The vote is stored under a fresh vote_id ("vote-" + uuid4), here its index.
vote_review(review_id, voter, helpful) ==
    IF review_id \notin DOMAIN reviews THEN ReviewRaise("vote", review_id, 0)
    ELSE /\ Len(votes) < MaxVotes
         /\ votes' = Append(votes, [review_id |-> review_id, voter |-> voter,
                                    helpful |-> helpful])
         /\ reviews' = [reviews EXCEPT ![review_id] = Voted(@, helpful)]
         /\ UNCHANGED <<disputes, review_ids_by_agent>>
         /\ review_last' = ReviewCall("vote", review_id, 0, FALSE)
         /\ UNCHANGED FrameOfReviews

calculate_agent_rating(agent_address, min_reviews) ==
    /\ UNCHANGED <<reviews, disputes, votes, review_ids_by_agent>>
    /\ review_last' =
          [ReviewCall("calculate_agent_rating", 0, 0, FALSE) EXCEPT
              !.agent = agent_address, !.min_reviews = min_reviews,
              !.res = CalculateAgentRating(reviews, review_ids_by_agent,
                                           agent_address, min_reviews)]
    /\ UNCHANGED FrameOfReviews

\* ------------------------------------------------------ derived escrow ids
FrameOfPda ==
    <<payment_intents, escrow_payments, payment_history, multisig_config, last,
      concurrentVars, notifyVars, legacyVars, amountVars, reviewVars, reputationVars>>

\* provider[:8]
Prefix(str, n) == SubSeq(str, 1, IF Len(str) < n THEN Len(str) ELSE n)

\* f"escrow-{provider[:8]}-{skill_id}": what derive_escrow_pda returns
\* without the solana package (HAS_SOLANA is False), and with it whenever the
\* provider address is not a string of hexadecimal digits.
DeriveEscrowPda(provider, skill_id) ==
    <<"e", "s", "c", "r", "o", "w", "-">> \o Prefix(provider, PROVIDER_PREFIX)
        \o <<"-">> \o skill_id

derive_escrow_pda(provider, skill_id) ==
    /\ Len(pda_log) < MaxPdaCalls
    /\ pda_log' = Append(pda_log, [provider |-> provider, skill_id |-> skill_id,
                                   res |-> DeriveEscrowPda(provider, skill_id)])
    /\ UNCHANGED FrameOfPda

\* ------------------------------------------------------- ReputationEngine
FrameOfReputation ==
    <<payment_intents, escrow_payments, payment_history, multisig_config, last,
      concurrentVars, notifyVars, legacyVars, amountVars, reviewVars, pdaVars>>

\* ReputationScore.calculate_score: 50.0 without reviews, and otherwise
\* 0.6 * (average_rating / 5 * 100) + 0.3 * on_time_percentage
\*     + 0.1 * min(total_reviews, 10),
\* over the common denominator 10 * total_reviews, for a score whose ratings
\* add up to rating_sum and of whose reviews on_time were on time.
CalculateScore(total_reviews, rating_sum, on_time) ==
    IF total_reviews = 0 THEN <<50, 1>>
    ELSE << 120 * rating_sum + 300 * on_time
              + (IF total_reviews < 10 THEN total_reviews ELSE 10) * total_reviews,
            10 * total_reviews >>

\* The ReputationScore recomputed from the reviews of an agent.
ScoreOf(agent_reviews) ==
    LET n == Len(agent_reviews)
        rating_sum == SumOf([i \in 1..n |-> agent_reviews[i].rating])
        on_time == Cardinality({i \in 1..n : agent_reviews[i].completed_on_time})
    IN IF n = 0 THEN NewScore
       ELSE [total_reviews |-> n, average_rating |-> <<rating_sum, n>>,
             on_time_percentage |-> <<100 * on_time, n>>,
             reputation_score |-> CalculateScore(n, rating_sum, on_time)]

\* add_review(agent_id, review): the review is kept whatever its rating
\* (Review.validate is not called) and the agent's score is recomputed.
add_review(agent_id, rating, completed_on_time) ==
    /\ Len(engine_reviews[agent_id]) < MaxEngineReviews
    /\ engine_reviews' =
          [engine_reviews EXCEPT ![agent_id] =
              Append(@, [rating |-> rating, completed_on_time |-> completed_on_time])]
    /\ engine_scores' = [engine_scores EXCEPT ![agent_id] = ScoreOf(engine_reviews'[agent_id])]
    /\ UNCHANGED FrameOfReputation

\* ---------------------------------------------------------------- multisig
set_multisig_config(config) ==
    /\ multisig_config' = config
    /\ UNCHANGED <<payment_intents, escrow_payments, payment_history>>
    /\ last' = Call("set_multisig_config", 0, "none", "none", FALSE, FALSE, NoResult)

\* Faulty variant of IsAuthorizedSigner: every signer is accepted.
IsAuthorizedSigner_Any(intent, signer) == TRUE

\* Faulty variant of IsAuthorizedSigner: the policy now in force is asked.
IsAuthorizedSigner_Current(intent, signer) == signer \in multisig_config.required_signers

\* signer in intent.metadata["signers_required"]
IsAuthorizedSigner(intent, signer) == signer \in intent.signers_required

\* The dict returned: success, error, multisig_complete (as status) and
\* signatures_needed (0 when complete).
collect_multisig_signature(intent_id, signer) ==
    IF intent_id \notin DOMAIN payment_intents
    THEN /\ UNCHANGED <<payment_intents, escrow_payments, payment_history, multisig_config>>
         /\ last' = Call("collect", intent_id, "none", "none", FALSE, FALSE,
                         Failure(0, "none", "not found"))
    ELSE LET intent == payment_intents[intent_id] IN
         IF ~intent.requires_multisig
         THEN /\ UNCHANGED <<payment_intents, escrow_payments, payment_history, multisig_config>>
              /\ last' = Call("collect", intent_id, "none", "none", FALSE, FALSE,
                              Failure(intent_id, "none", "not required"))
         ELSE IF ~IsAuthorizedSigner(intent, signer)
         THEN /\ UNCHANGED <<payment_intents, escrow_payments, payment_history, multisig_config>>
              /\ last' = Call("collect", intent_id, "none", "none", FALSE, FALSE,
                              Failure(intent_id, "none", "unauthorized"))
         ELSE LET sigs == intent.signatures_collected \cup {signer}
                  complete == Cardinality(sigs) >= multisig_config.required_count
              IN /\ payment_intents' =
                        [payment_intents EXCEPT ![intent_id].signatures_collected = sigs]
                 /\ UNCHANGED <<escrow_payments, payment_history, multisig_config>>
                 /\ last' = Call("collect", intent_id, "none", "none", FALSE, FALSE,
                                 [Success(intent_id, "none",
                                          IF complete THEN "complete" ELSE "incomplete")
                                     EXCEPT !.needed =
                                         IF complete THEN 0
                                         ELSE multisig_config.required_count - Cardinality(sigs)])

\* ------------------------------------------------------------ specification
\* The service under the policy it was constructed with.
Next ==
    \/ \E amount \in Amounts, w \in WalletPairs :
          /\ create_payment_intent(amount, w[1], w[2])
          /\ UNCHANGED OutsideService
    \/ \E intent_id \in IntentIds, outcome \in TransferOutcomes, signature \in TxSignatures :
          /\ execute_payment_intent(intent_id, outcome, signature)
          /\ UNCHANGED OutsideService
    \/ \E intent_id \in IntentIds :
          /\ cancel_payment_intent(intent_id)
          /\ UNCHANGED OutsideService
    \/ \E escrow_id \in EscrowIds, amount \in Amounts, w \in WalletPairs :
          /\ execute_escrow_payment(escrow_id, amount, w[1], w[2])
          /\ UNCHANGED OutsideService
    \/ \E escrow_id \in EscrowIds, outcome \in TransferOutcomes, signature \in TxSignatures :
          /\ fund_escrow_payment(escrow_id, outcome, signature)
          /\ UNCHANGED OutsideService
    \/ \E escrow_id \in EscrowIds, authority \in Authorities, given \in BOOLEAN :
          /\ release_escrow_payment(escrow_id, authority, given)
          /\ UNCHANGED OutsideService
    \/ \E escrow_id \in EscrowIds :
          /\ refund_escrow_payment(escrow_id)
          /\ UNCHANGED OutsideService
    \/ \E intent_id \in IntentIds, signer \in Authorities :
          /\ collect_multisig_signature(intent_id, signer)
          /\ UNCHANGED OutsideService

Spec == Init /\ [][Next]_vars

\* The same, with the policy replaced at any time.
NextPolicy ==
    \/ Next
    \/ \E config \in Configs :
          /\ set_multisig_config(config)
          /\ UNCHANGED OutsideService

SpecPolicy == Init /\ [][NextPolicy]_vars

\* Payments below and at the multisig threshold under a policy that is
\* replaced at any time: the whole service, with the amounts that pass
\* validation and an adapter that confirms the transfer or raises.
NextThreshold ==
    \/ \E amount \in {MIN_AMOUNT, MULTISIG_THRESHOLD_USD * MICRO_PER_USD}, w \in WalletPairs :
          /\ create_payment_intent(amount, w[1], w[2])
          /\ UNCHANGED OutsideService
    \/ \E intent_id \in IntentIds, outcome \in {"confirmed", "raise"}, signature \in TxSignatures :
          /\ execute_payment_intent(intent_id, outcome, signature)
          /\ UNCHANGED OutsideService
    \/ \E intent_id \in IntentIds :
          /\ cancel_payment_intent(intent_id)
          /\ UNCHANGED OutsideService
    \/ \E escrow_id \in EscrowIds, w \in WalletPairs :
          /\ execute_escrow_payment(escrow_id, MULTISIG_THRESHOLD_USD * MICRO_PER_USD,
                                    w[1], w[2])
          /\ UNCHANGED OutsideService
    \/ \E escrow_id \in EscrowIds, outcome \in {"confirmed", "raise"}, signature \in TxSignatures :
          /\ fund_escrow_payment(escrow_id, outcome, signature)
          /\ UNCHANGED OutsideService
    \/ \E escrow_id \in EscrowIds, authority \in Signers :
          /\ release_escrow_payment(escrow_id, authority, TRUE)
          /\ UNCHANGED OutsideService
    \/ \E escrow_id \in EscrowIds :
          /\ refund_escrow_payment(escrow_id)
          /\ UNCHANGED OutsideService
    \/ \E intent_id \in IntentIds, signer \in Signers :
          /\ collect_multisig_signature(intent_id, signer)
          /\ UNCHANGED OutsideService
    \/ \E config \in Configs :
          /\ set_multisig_config(config)
          /\ UNCHANGED OutsideService

SpecThreshold == Init /\ [][NextThreshold]_vars

\* The multisig policy on its own: intents are created on both sides of the
\* thresholds, the policy is replaced, and signatures are collected.
NextMultisig ==
    \/ \E amount \in PolicyAmounts, w \in WalletPairs :
          /\ create_payment_intent(amount, w[1], w[2])
          /\ UNCHANGED OutsideService
    \/ \E config \in PolicyConfigs :
          /\ set_multisig_config(config)
          /\ UNCHANGED OutsideService
    \/ \E intent_id \in IntentIds, signer \in Authorities :
          /\ collect_multisig_signature(intent_id, signer)
          /\ UNCHANGED OutsideService

SpecMultisig == Init /\ [][NextMultisig]_vars

\* Intents are created, and executed by threads whose steps interleave.
NextConcurrent ==
    \/ \E amount \in Amounts, w \in WalletPairs :
          /\ create_payment_intent(amount, w[1], w[2])
          /\ UNCHANGED OutsideService
    \/ \E c \in Callers, intent_id \in IntentIds : execute_read_status(c, intent_id)
    \/ \E c \in Callers, outcome \in TransferOutcomes, signature \in TxSignatures :
          execute_transfer(c, outcome, signature)
    \/ \E c \in Callers : execute_write_status(c)
    \/ \E c \in Callers : execute_return(c)

SpecConcurrent == Init /\ [][NextConcurrent]_vars

\* Escrows are opened while no call is in progress, and funded, released and
\* refunded by threads whose steps interleave.
NextEscrowRace ==
    \/ \E escrow_id \in EscrowIds, amount \in Amounts, w \in WalletPairs :
          /\ \A c \in Callers : calls[c].pc = "idle"
          /\ execute_escrow_payment(escrow_id, amount, w[1], w[2])
          /\ UNCHANGED OutsideService
    \/ \E c \in Callers, op \in {"fund", "release", "refund"}, escrow_id \in EscrowIds,
          authority \in Authorities, given \in BOOLEAN :
          escrow_check(c, op, escrow_id, authority, given)
    \/ \E c \in Callers, signature \in TxSignatures : fund_execute(c, signature)
    \/ \E c \in Callers : escrow_update(c)
    \/ \E c \in Callers : execute_return(c)

SpecEscrowRace == Init /\ [][NextEscrowRace]_vars

\* Balance notifications: registrations and checks as time passes.
NextNotify ==
    \/ \E wallet \in NotifyWallets, threshold_usd \in NotifyThresholds,
          callback_url \in CallbackUrls, auto_reload \in BOOLEAN,
          auto_reload_amount \in ReloadAmounts :
          register_balance_notification(wallet, threshold_usd, callback_url, auto_reload,
                                        auto_reload_amount)
    \/ \E wallet \in NotifyWallets, force \in BOOLEAN, balance \in Balances :
          check_balance_and_notify(wallet, force, balance)
    \/ \E t \in Instants : time_passes(t)

SpecNotify == Init /\ [][NextNotify]_vars

\* The legacy EscrowClient, constructed with its mock data.
NextLegacy ==
    \/ \E amount \in LegacyAmounts : create_escrow(amount)
    \/ \E escrow_id \in LegacyIds : fund_escrow(escrow_id)
    \/ \E escrow_id \in LegacyIds : activate_escrow(escrow_id)
    \/ \E escrow_id \in LegacyIds, deliverable_hash \in DeliverableHashes :
          complete_escrow(escrow_id, deliverable_hash)
    \/ \E escrow_id \in LegacyIds : release_escrow(escrow_id)
    \/ \E escrow_id \in LegacyIds : refund_escrow(escrow_id)
    \/ \E escrow_id \in LegacyIds : dispute_escrow(escrow_id)
    \/ \E escrow_id \in LegacyIds, resolution \in Resolutions :
          resolve_dispute(escrow_id, resolution)
    \/ \E escrow_id \in LegacyIds : cancel_escrow(escrow_id)

SpecLegacy == Init /\ [][NextLegacy]_vars

\* The legacy EscrowClient's amount queries, on escrows of any principal that
\* are created, funded and activated.
NextAmounts ==
    \/ \E amount \in QueryAmounts : create_escrow(amount)
    \/ \E escrow_id \in LegacyIds : fund_escrow(escrow_id)
    \/ \E escrow_id \in LegacyIds : activate_escrow(escrow_id)
    \/ \E escrow_id \in LegacyIds : release_amount_for_escrow(escrow_id)
    \/ \E escrow_id \in LegacyIds : refund_amount_for_escrow(escrow_id)

SpecAmounts == Init /\ [][NextAmounts]_vars

\* The review service on its own.
NextReview ==
    \/ \E provider \in ReviewProviders, rating \in Ratings :
          create_review(provider, rating, FALSE, "fair")
    \/ \E review_id \in ReviewIds : submit_review(review_id)
    \/ \E review_id \in ReviewIds : file_dispute(review_id)
    \/ \E dispute_id \in DisputeIds, resolution \in DisputeResolutions :
          ReviewService_resolve_dispute(dispute_id, resolution)
    \/ \E review_id \in ReviewIds, helpful \in BOOLEAN :
          /\ votes = <<>>
          /\ vote_review(review_id, "v1", helpful)
    \/ \E agent_address \in ReviewAgents, min_reviews \in MinReviews :
          calculate_agent_rating(agent_address, min_reviews)

SpecReview == Init /\ [][NextReview]_vars

\* Votes on reviews of every status, the same voter voting again.
NextVotes ==
    \/ \E provider \in ReviewProviders, rating \in Ratings :
          create_review(provider, rating, FALSE, "fair")
    \/ \E review_id \in ReviewIds : submit_review(review_id)
    \/ \E review_id \in ReviewIds : file_dispute(review_id)
    \/ \E dispute_id \in DisputeIds, resolution \in DisputeResolutions :
          ReviewService_resolve_dispute(dispute_id, resolution)
    \/ \E review_id \in ReviewIds, helpful \in BOOLEAN : vote_review(review_id, "v1", helpful)

SpecVotes == Init /\ [][NextVotes]_vars

\* Calls of derive_escrow_pda, on one client.
NextPda ==
    \E provider \in PdaProviders, skill_id \in PdaSkills : derive_escrow_pda(provider, skill_id)

SpecPda == Init /\ [][NextPda]_vars

\* The ReputationEngine on its own.
NextReputation ==
    \E agent_id \in EngineAgents, rating \in EngineRatings, completed_on_time \in BOOLEAN :
        add_review(agent_id, rating, completed_on_time)

SpecReputation == Init /\ [][NextReputation]_vars

\* ------------------------------------------------------------------ claims
ExecutingOps == {"execute", "fund"}

\* The Payment records appended for an intent: those carrying its created_at.
PaymentsOf(intent_id) ==
    {k \in DOMAIN payment_history :
        payment_history[k].created_at = payment_intents[intent_id].created_at}

\* C1: the ledger transfer is performed at most once per payment intent: an
\* execute_payment_intent (or a fund_escrow_payment executing it) on an intent
\* that is already CONFIRMED fails with an invalid-state error, calls no
\* transfer and appends no Payment record, so no intent ever has two records.
C1_AtMostOneTransferPerIntent ==
    /\ \A i \in DOMAIN payment_intents : Cardinality(PaymentsOf(i)) <= 1
    /\ (last.op \in ExecutingOps /\ last.pre_intent = "confirmed") =>
          /\ ~last.res.success
          /\ ~last.transfer
          /\ last.same_history

\* The status changes of the graph, as seen between calls (PROCESSING is transient).
StatusGraph ==
    { <<"pending", "confirmed">>, <<"confirmed", "finalized">>,
      <<"pending", "cancelled">>, <<"pending", "failed">> }

\* C2: between calls an intent's status changes only along PENDING -> CONFIRMED
\* -> FINALIZED, PENDING -> CANCELLED and PENDING -> FAILED, and PROCESSING is
\* never the status a call leaves behind.
C2_StatusFollowsGraph ==
    [][ /\ \A i \in DOMAIN payment_intents :
              \/ payment_intents'[i].status = payment_intents[i].status
              \/ <<payment_intents[i].status, payment_intents'[i].status>> \in StatusGraph
        /\ \A i \in DOMAIN payment_intents' : payment_intents'[i].status # "processing"
      ]_vars

\* C3: RELEASED and REFUNDED are terminal: no call changes the status stored
\* under an escrow_id whose record is RELEASED or REFUNDED.
C3_ReleasedRefundedTerminal ==
    [][ \A e \in DOMAIN escrow_payments :
           escrow_payments[e].status \in {"released", "refunded"} =>
              /\ e \in DOMAIN escrow_payments'
              /\ escrow_payments'[e].status = escrow_payments[e].status
      ]_vars

\* C4: an intent that requires multisig is executed (transfer called, status
\* CONFIRMED) only when at least required_count distinct authorized signers
\* have signatures collected for it.
C4_MultisigThresholdBeforeExecution ==
    /\ \A i \in DOMAIN payment_intents :
          (payment_intents[i].requires_multisig /\ payment_intents[i].status = "confirmed") =>
             Cardinality(payment_intents[i].signatures_collected) >= multisig_config.required_count
    /\ (/\ last.op \in ExecutingOps
        /\ last.transfer
        /\ payment_intents[last.intent_id].requires_multisig) =>
          Cardinality(payment_intents[last.intent_id].signatures_collected)
              >= multisig_config.required_count

\* C5: when transfer returns a receipt whose status is Failed, the execution is
\* reported as a failure: no success result, the intent not CONFIRMED, no
\* Payment record appended, and an escrow funded through it not FUNDED.
C5_FailedReceiptIsPaymentFailure ==
    (last.op \in ExecutingOps /\ last.outcome = "failed") =>
        /\ ~last.res.success
        /\ payment_intents[last.intent_id].status # "confirmed"
        /\ last.same_history
        /\ last.op = "fund" => escrow_payments[last.escrow_id].status # "funded"

\* C6: when transfer raises, execute_payment_intent does not raise: it returns
\* success=False with status FAILED, the intent is stored FAILED, no Payment
\* record is appended, and an escrow being funded stays PENDING, funded_at unset.
C6_TransferErrorBecomesFailed ==
    (last.op \in ExecutingOps /\ last.outcome = "raise") =>
        /\ ~last.raised
        /\ ~last.res.success
        /\ last.res.status = "failed"
        /\ payment_intents[last.intent_id].status = "failed"
        /\ last.same_history
        /\ last.op = "fund" =>
              /\ last.same_escrows
              /\ escrow_payments[last.escrow_id].status = "pending"
              /\ ~escrow_payments[last.escrow_id].funded_at

C6_Witness ==
    /\ last.op = "fund"
    /\ last.outcome = "raise"
    /\ last.pre_intent = "pending"
    /\ payment_intents[last.intent_id].status = "failed"

\* C7: fund_escrow_payment makes a PENDING escrow FUNDED, with funded_at set,
\* exactly when the linked intent's execution within the call succeeds, and
\* fails on an escrow in any other status; so every FUNDED escrow has a linked
\* intent with a settlement signature and a Payment record in the history.
C7_FundedIffIntentExecuted ==
    /\ (last.op = "fund" /\ last.pre_escrow = "pending") =>
          LET escrow == escrow_payments[last.escrow_id] IN
          /\ (escrow.status = "funded") = (last.transfer /\ last.res.success)
          /\ escrow.funded_at = (escrow.status = "funded")
          /\ escrow.status \in {"funded", "pending"}
    /\ (last.op = "fund" /\ last.pre_escrow # "pending") =>
          /\ ~last.res.success
          /\ ~last.transfer
          /\ last.same_escrows /\ last.same_intents /\ last.same_history
    /\ \A e \in DOMAIN escrow_payments :
          escrow_payments[e].status = "funded" =>
             LET i == escrow_payments[e].payment_intent_id IN
             /\ i \in DOMAIN payment_intents
             /\ payment_intents[i].signature # "none"
             /\ \E k \in PaymentsOf(i) :
                   payment_history[k].signature = payment_intents[i].signature

C7_Witness ==
    /\ last.op = "fund"
    /\ last.pre_escrow = "pending"
    /\ last.res.success
    /\ escrow_payments[last.escrow_id].status = "funded"

\* C8: release_escrow_payment on a FUNDED escrow succeeds (RELEASED, released_at
\* set) exactly when the linked intent does not require multisig or the escrow's
\* signature map, the call's own signature included, holds at least 2 signers;
\* otherwise it fails, reports 2 minus the number held as still needed, and the
\* escrow stays FUNDED.
C8_ReleaseIffSigned ==
    (last.op = "release" /\ last.pre_escrow = "funded") =>
        LET escrow == escrow_payments[last.escrow_id]
            held == Cardinality(escrow.signatures)
        IN /\ last.res.success =
                 (~payment_intents[last.intent_id].requires_multisig \/ held >= 2)
           /\ last.res.success =>
                 /\ escrow.status = "released"
                 /\ escrow.released_at
           /\ ~last.res.success =>
                 /\ escrow.status = "funded"
                 /\ ~escrow.released_at
                 /\ last.res.error = "need signatures"
                 /\ last.res.needed = 2 - held

C8_Witness ==
    /\ last.op = "release"
    /\ last.pre_escrow = "funded"
    /\ last.res.success
    /\ payment_intents[last.intent_id].requires_multisig
    /\ escrow_payments[last.escrow_id].status = "released"

\* C9: refund_escrow_payment succeeds only on a FUNDED escrow, which it makes
\* REFUNDED with refunded_at set while the linked intent becomes CANCELLED; on
\* any other escrow it returns a failure and changes neither escrow nor intent.
C9_RefundOnlyFromFunded ==
    (last.op = "refund") =>
        IF last.pre_escrow = "funded"
        THEN /\ last.res.success
             /\ escrow_payments[last.escrow_id].status = "refunded"
             /\ escrow_payments[last.escrow_id].refunded_at
             /\ payment_intents[last.intent_id].status = "cancelled"
        ELSE /\ ~last.res.success
             /\ ~last.raised
             /\ last.same_escrows
             /\ last.same_intents

C9_Witness ==
    /\ last.op = "refund"
    /\ last.pre_escrow = "funded"
    /\ last.res.success
    /\ payment_intents[last.intent_id].status = "cancelled"

\* C10: create_payment_intent raises PaymentError and stores nothing for every
\* amount <= 0 (invalid amount) and every amount in 1..999 (below the minimum);
\* for every amount >= 1000 it stores and returns a new PENDING intent; so
\* every stored intent has amount >= 1000.
C10_AmountValidated ==
    /\ (last.op = "create") =>
          IF last.amount < 1000
          THEN /\ last.raised
               /\ last.res.error = IF last.amount <= 0 THEN "Amount must be positive"
                                                       ELSE "Amount below minimum"
               /\ last.same_intents /\ last.same_escrows /\ last.same_history
          ELSE /\ ~last.raised
               /\ last.pre_intent = "none"
               /\ last.intent_id = Len(payment_intents)
               /\ payment_intents[last.intent_id].status = "pending"
               /\ payment_intents[last.intent_id].amount = last.amount
    /\ \A i \in DOMAIN payment_intents : payment_intents[i].amount >= 1000

C10_Witness ==
    /\ last.op = "create"
    /\ last.amount = 999
    /\ last.raised
    /\ Len(payment_intents) > 0

\* C11: create_payment_intent marks the new intent requires_multisig, with
\* signers_required the policy's signer list and no signature collected,
\* exactly when the policy's threshold_usd is > 0 and the amount is at least
\* threshold_usd * 1_000_000 micro-units (the boundary amount included); an
\* intent created strictly below the threshold does not require multisig.
C11_MultisigStampedAtThreshold ==
    (last.op = "create" /\ ~last.raised) =>
        LET intent == payment_intents[last.intent_id]
            at_threshold == /\ multisig_config.threshold_usd > 0
                            /\ last.amount >= multisig_config.threshold_usd * 1000000
        IN /\ intent.requires_multisig = at_threshold
           /\ at_threshold =>
                 /\ intent.signers_required = multisig_config.required_signers
                 /\ intent.signatures_collected = {}

C11_Witness ==
    /\ last.op = "create"
    /\ last.amount = 1000 * 1000000
    /\ multisig_config.threshold_usd = 1000
    /\ payment_intents[last.intent_id].requires_multisig
    /\ payment_intents[last.intent_id].signers_required = Signers

\* C12: collect_multisig_signature on a stored intent that does not require
\* multisig fails as "not required", and on one that does, with a signer that
\* is not among its signers_required, fails as "unauthorized"; either way the
\* intents (their collected signatures included), the escrows, the history and
\* the policy are left as they were.
C12_RejectedSignatureChangesNothing ==
    [][ \A i \in IntentIds, s \in Authorities :
           (i \in DOMAIN payment_intents /\ collect_multisig_signature(i, s)) =>
              LET intent == payment_intents[i]
                  rejected == \/ ~intent.requires_multisig
                              \/ s \notin intent.signers_required
              IN /\ rejected = ~last'.res.success
                 /\ rejected =>
                       /\ last'.res.error = IF ~intent.requires_multisig
                                            THEN "not required" ELSE "unauthorized"
                       /\ UNCHANGED <<payment_intents, escrow_payments,
                                      payment_history, multisig_config>>
      ]_vars

C12_Witness ==
    /\ last.op = "collect"
    /\ last.res.error = "unauthorized"
    /\ payment_intents[last.intent_id].requires_multisig
    /\ payment_intents[last.intent_id].signers_required # {}
    /\ payment_intents[last.intent_id].signatures_collected # {}

\* C13: a successful release_escrow_payment moves the linked intent from
\* CONFIRMED to FINALIZED, and a successful execute_payment_intent leaves its
\* intent CONFIRMED, never FINALIZED.
C13_ReleaseFinalizesIntent ==
    /\ (last.op = "release" /\ last.res.success /\ last.pre_intent = "confirmed") =>
          payment_intents[last.intent_id].status = "finalized"
    /\ (last.op = "execute" /\ last.res.success) =>
          payment_intents[last.intent_id].status = "confirmed"

\* The escrow records that name an intent.
EscrowsOf(intent_id) ==
    {e \in DOMAIN escrow_payments : escrow_payments[e].payment_intent_id = intent_id}

\* C14: escrow records and intents are linked one to one: every escrow record
\* names a stored intent with its own amount, source and destination, no two
\* records name the same intent, and every intent created by
\* execute_escrow_payment is named by exactly one record, also after
\* execute_escrow_payment is called again with an escrow_id already in use.
C14_EscrowIntentOneToOne ==
    /\ \A e \in DOMAIN escrow_payments :
          LET escrow == escrow_payments[e]
              i == escrow.payment_intent_id
          IN /\ i \in DOMAIN payment_intents
             /\ payment_intents[i].amount = escrow.amount
             /\ payment_intents[i].from_wallet = escrow.from_wallet
             /\ payment_intents[i].to_wallet = escrow.to_wallet
    /\ \A i \in DOMAIN payment_intents : Cardinality(EscrowsOf(i)) <= 1
    /\ \A i \in DOMAIN payment_intents :
          payment_intents[i].escrow_id # "none" => Cardinality(EscrowsOf(i)) = 1

TransfersFromPending(c) ==
    /\ calls[c].observed = "pending"
    /\ \/ calls[c].pc \in {"transfer", "write"}
       \/ calls[c].pc = "done" /\ calls[c].res.success

\* C16: of two execute_payment_intent calls running concurrently on the same
\* PENDING intent, only one observes PENDING and performs the transfer; the
\* other fails with an invalid-state error, and no intent gets a second
\* transfer or a second Payment record.
C16_ConcurrentExecuteOnce ==
    /\ \A c1, c2 \in Callers :
          (c1 # c2 /\ calls[c1].intent_id = calls[c2].intent_id /\ TransfersFromPending(c1)) =>
             ~TransfersFromPending(c2)
    /\ \A i \in DOMAIN payment_intents :
          /\ ledger_transfers[i] <= 1
          /\ Cardinality(PaymentsOf(i)) <= 1

\* C17: for a registered wallet whose balance is below its threshold, a check
\* without force sends an alert when none was sent since the registration, and
\* a check repeated within the hour returns alert_sent = False as rate limited;
\* and over any sequence of registrations and checks, an alert sent by a check
\* without force comes at least one hour after the wallet's previous alert.
C17_AlertsRateLimited ==
    /\ (/\ notify_last.op = "check"
        /\ ~notify_last.force
        /\ notify_last.registered
        /\ notify_last.balance < balance_notifications[notify_last.wallet].threshold_usd) =>
          IF notify_last.pre_notified_at = NotSet
          THEN notify_last.res.alert_sent
          ELSE (notify_last.at - notify_last.pre_notified_at < TICKS_PER_HOUR) =>
                  /\ ~notify_last.res.alert_sent
                  /\ notify_last.res.reason = "Rate limited"
    /\ \A w \in NotifyWallets :
          \A k \in 1..(Len(alerts[w]) - 1) :
             ~alerts[w][k + 1].forced =>
                alerts[w][k + 1].at - alerts[w][k].at >= TICKS_PER_HOUR

\* The state changes of the legacy escrow: <<operation, from, to>>.
ClaimedTransitions ==
    { <<"fund", "created", "funded">>, <<"activate", "funded", "active">>,
      <<"complete", "active", "completed">>, <<"dispute", "completed", "disputed">>,
      <<"resolve", "disputed", "released">>, <<"resolve", "disputed", "refunded">>,
      <<"refund", "funded", "refunded">>, <<"refund", "active", "refunded">>,
      <<"cancel", "created", "cancelled">>,
      <<"release", "active", "released">>, <<"release", "completed", "released">> }

\* A call on a stored escrow either is an operation/state combination of the
\* given transitions, and then returns normally and changes the state, if at
\* all, along one of them; or it raises EscrowError and changes nothing. No
\* call changes another escrow.
LegacyFollows(transitions) ==
    (escrow_last.op \notin {"init", "create"} /\ escrow_last.pre_state # "absent") =>
        LET pre == escrow_last.pre_state
            post == escrows[escrow_last.escrow_id].state
        IN /\ escrow_last.same_others
           /\ IF \E t \in transitions : t[1] = escrow_last.op /\ t[2] = pre
              THEN /\ ~escrow_last.raised
                   /\ post # pre => <<escrow_last.op, pre, post>> \in transitions
              ELSE /\ escrow_last.raised
                   /\ escrow_last.same_escrows

\* C18: the legacy escrow changes state only by CREATED -> FUNDED (fund_escrow),
\* FUNDED -> ACTIVE (activate_escrow), ACTIVE -> COMPLETED (complete_escrow),
\* COMPLETED -> DISPUTED (dispute_escrow), DISPUTED -> RELEASED or REFUNDED
\* (resolve_dispute), FUNDED or ACTIVE -> REFUNDED (refund_escrow), CREATED ->
\* CANCELLED (cancel_escrow) and ACTIVE or COMPLETED -> RELEASED
\* (release_escrow); every other operation/state combination raises EscrowError
\* and changes nothing, so RELEASED, REFUNDED and CANCELLED are terminal.
C18_LegacyTransitionsAsClaimed == LegacyFollows(ClaimedTransitions)

\* C18, amended: the same with ACTIVE -> DISPUTED (dispute_escrow) among the
\* state changes.
C18_LegacyTransitions ==
    LegacyFollows(ClaimedTransitions \cup {<<"dispute", "active", "disputed">>})

C18_Witness ==
    /\ escrow_last.op = "dispute"
    /\ escrow_last.pre_state = "active"
    /\ ~escrow_last.raised
    /\ escrows[escrow_last.escrow_id].state = "disputed"

C20_FundedEscrowReleasable ==
    (/\ escrow_last.op = "release"
     /\ escrow_last.escrow_id # DEMO_ESCROW
     /\ escrow_last.pre_state = "funded") =>
        /\ ~escrow_last.raised
        /\ escrows[escrow_last.escrow_id].state = "released"

\* C21: for a funded or active legacy escrow with principal a,
\* release_amount_for_escrow returns exactly a and refund_amount_for_escrow
\* returns exactly floor(a * 99 / 100), that is the r with
\* 100 r <= 99 a < 100 r + 100; the refund r never exceeds the principal, and
\* the retained fee a - r is at most ceil(a / 100), that is
\* 99 a < 100 r + 100 again.
C21_RefundIsNinetyNinePercent ==
    amount_last.state \in {"funded", "active"} =>
        LET a == amount_last.principal
            r == amount_last.res
        IN /\ amount_last.op = "release_amount" => r = a
           /\ amount_last.op = "refund_amount" =>
                 /\ ~LessThan(Times(Wide(99), a), Times(Wide(100), r))
                 /\ LessThan(Times(Wide(99), a), AddCarry(Times(Wide(100), r), Wide(100), 0))
                 /\ ~LessThan(a, r)

\* The steps of the review status chain, and a review's coming into being.
ForwardSteps ==
    { <<"none", "pending">>, <<"pending", "submitted">>, <<"submitted", "disputed">>,
      <<"disputed", "resolved">>, <<"resolved", "archived">> }

\* C22: over any sequence of create_review, submit_review, file_dispute,
\* resolve_dispute and vote_review, the status of the review a call concerns
\* stays as it is or moves one step forward along PENDING -> SUBMITTED ->
\* DISPUTED -> RESOLVED -> ARCHIVED (so it never returns to SUBMITTED), and
\* submit_review on a review that is not PENDING changes neither the reviews
\* nor the agents' lists of review ids.
C22_ReviewStatusMovesForward ==
    review_last.op \in {"create", "submit", "file_dispute", "resolve_dispute", "vote"} =>
        /\ \/ review_last.status = review_last.pre_status
           \/ <<review_last.pre_status, review_last.status>> \in ForwardSteps
        /\ review_last.op = "submit" /\ review_last.pre_status # "pending" =>
              review_last.same_reviews /\ review_last.same_index

UnresolvedDisputesOf(review_id) ==
    {d \in DOMAIN disputes : disputes[d].review_id = review_id /\ ~disputes[d].resolved}

\* C23: each review has at most one unresolved dispute at any time;
\* file_dispute succeeds exactly when the review is SUBMITTED, and then the
\* dispute is stored unresolved and the review is DISPUTED; for a review in
\* any other status it raises and the reviews, disputes and lists of ids are
\* as they were.
C23_OneUnresolvedDisputePerReview ==
    /\ \A r \in DOMAIN reviews : Cardinality(UnresolvedDisputesOf(r)) <= 1
    /\ review_last.op = "file_dispute" =>
          IF review_last.pre_status = "submitted"
          THEN /\ ~review_last.raised
               /\ review_last.status = "disputed"
               /\ review_last.dispute_id \in UnresolvedDisputesOf(review_last.review_id)
          ELSE /\ review_last.raised
               /\ review_last.same_reviews
               /\ review_last.same_disputes
               /\ review_last.same_index

\* The agent's reviews that are SUBMITTED, each one once.
SubmittedReviewsOf(agent_address) ==
    {r \in DOMAIN reviews : /\ reviews[r].provider = agent_address
                            /\ reviews[r].status = "submitted"}

RECURSIVE RatingsOf(_)
RatingsOf(review_ids) ==
    IF review_ids = {} THEN 0
    ELSE LET r == CHOOSE r \in review_ids : TRUE
         IN reviews[r].rating + RatingsOf(review_ids \ {r})

\* C24: calculate_agent_rating(agent, min_reviews) reports as total_reviews
\* the number of distinct SUBMITTED reviews whose provider is the agent; when
\* that number is below min_reviews it returns rating = insufficient_reviews
\* with zeroed averages and does not fail; otherwise average_rating is the
\* mean of the ratings of these reviews (to two decimals).
C24_RatingCountsSubmittedOnce ==
    review_last.op = "calculate_agent_rating" =>
        LET submitted == SubmittedReviewsOf(review_last.agent)
            n == Cardinality(submitted)
        IN /\ review_last.res.total_reviews = n
           /\ n < review_last.min_reviews =>
                 /\ ~review_last.res.raised
                 /\ review_last.res.rating = "insufficient_reviews"
                 /\ review_last.res.average_rating = 0
                 /\ review_last.res.on_time_rate = 0
           /\ n >= review_last.min_reviews /\ n > 0 =>
                 /\ ~review_last.res.raised
                 /\ review_last.res.average_rating = RoundHalfEven(RatingsOf(submitted) * 100, n)

\* What get_agent_reviews (for every status filter) and calculate_agent_rating
\* answer for every agent is the same after the step as before it.
SameQueries ==
    \A a \in ReviewAgents :
        /\ \A status \in {"none", "pending", "submitted", "disputed", "resolved"} :
              GetAgentReviews(reviews', review_ids_by_agent', a, status, DEFAULT_REVIEW_LIMIT)
                = GetAgentReviews(reviews, review_ids_by_agent, a, status, DEFAULT_REVIEW_LIMIT)
        /\ \A m \in MinReviews :
              CalculateAgentRating(reviews', review_ids_by_agent', a, m)
                = CalculateAgentRating(reviews, review_ids_by_agent, a, m)

Listed(index, review_id) ==
    \E a \in DOMAIN index : \E i \in 1..Len(index[a]) : index[a][i] = review_id

\* C25: create_review returns a PENDING review and the queries answer as
\* before the call; as long as the review is PENDING it is in no agent's list
\* and a call on it other than submit_review leaves the queries' answers as
\* they were; submit_review on it makes it SUBMITTED and lists it under its
\* provider.
C25_PendingReviewAffectsNoAggregate ==
    [][ /\ review_last'.op = "create" =>
              /\ review_last'.status = "pending"
              /\ SameQueries
        /\ \A r \in DOMAIN reviews' : reviews'[r].status = "pending" =>
              ~Listed(review_ids_by_agent', r)
        /\ review_last'.pre_status = "pending" /\ review_last'.op # "submit" => SameQueries
        /\ review_last'.pre_status = "pending" /\ review_last'.op = "submit" =>
              /\ review_last'.status = "submitted"
              /\ \E i \in 1..Len(review_ids_by_agent'[reviews'[review_last'.review_id].provider]) :
                    review_ids_by_agent'[reviews'[review_last'.review_id].provider][i]
                       = review_last'.review_id ]_vars

C25_Witness ==
    /\ review_last.op = "submit"
    /\ review_last.pre_status = "pending"
    /\ review_last.status = "submitted"
    /\ review_last.review_id \notin MockReviewIds
    /\ Listed(review_ids_by_agent, review_last.review_id)

\* C26: derive_escrow_pda is deterministic and injective: two calls with the
\* same (provider, skill_id) return the same id, and two calls whose pairs
\* differ in the provider or in the skill_id return different ids.
C26_PdaDeterministicInjective ==
    \A i, j \in DOMAIN pda_log :
        (pda_log[i].provider = pda_log[j].provider /\ pda_log[i].skill_id = pda_log[j].skill_id)
            <=> pda_log[i].res = pda_log[j].res

\* C27: after any sequence of add_review calls every agent's reputation
\* score is within 0..100; an agent without reviews has exactly 50; and
\* otherwise the score is 0.6 * (average_rating / 5 * 100)
\* + 0.3 * on_time_percentage + 0.1 * min(total_reviews, 10) of the reviews
\* added so far, those with a rating outside 1..5 included.
C27_ReputationScoreBounded ==
    \A a \in EngineAgents :
        LET score == engine_scores[a].reputation_score
            added == engine_reviews[a]
            n == Len(added)
            rating_sum == SumOf([i \in 1..n |-> added[i].rating])
            on_time == Cardinality({i \in 1..n : added[i].completed_on_time})
        IN /\ 0 <= score[1]
           /\ score[1] <= 100 * score[2]
           /\ n = 0 => score = <<50, 1>>
           /\ n > 0 =>
                 /\ engine_scores[a].total_reviews = n
                 /\ score[1] * 10 * n
                      = (120 * rating_sum + 300 * on_time
                           + (IF n < 10 THEN n ELSE 10) * n) * score[2]

\* A call returned a failure because of an unknown id, an invalid lifecycle
\* state, an unauthorized signer or an incomplete multisig.
Rejected ==
    /\ ~last.res.success
    /\ last.res.error \in {"not found", "invalid state", "unauthorized",
                           "multisig incomplete", "need signatures"}

\* C28 as claimed: an operation of the payment service that returns such a
\* failure leaves the payment intents, the escrow records (their signature
\* maps included) and the payment history as they were.
C28_RejectedCallChangesNothingAsClaimed ==
    Rejected => last.same_intents /\ last.same_escrows /\ last.same_history

\* C28: an operation of the payment service that returns such a failure
\* leaves the payment intents, the payment history and every escrow's status
\* and timestamps as they were; an escrow's signature map changes only when
\* release_escrow_payment reports that signatures are missing, and then only
\* by signatures added.
C28_RejectedCallChangesNothing ==
    Rejected =>
        /\ last.same_intents
        /\ last.same_history
        /\ last.same_escrow_states
        /\ last.same_escrows \/ (last.op = "release" /\ last.res.error = "need signatures")

C28_Witness ==
    /\ Rejected
    /\ last.op = "release"
    /\ last.res.error = "need signatures"
    /\ ~last.same_escrows
    /\ last.same_escrow_states

\* The last call was execute_payment_intent, or fund_escrow_payment on a
\* PENDING escrow, and its intent was PENDING, requires multisig and holds no
\* collected signature (a failing execution changes neither).
UnsignedMultisigExecution ==
    /\ last.op \in {"execute", "fund"}
    /\ last.op = "fund" => last.pre_escrow = "pending"
    /\ last.intent_id \in DOMAIN payment_intents
    /\ last.pre_intent = "pending"
    /\ payment_intents[last.intent_id].requires_multisig
    /\ payment_intents[last.intent_id].signatures_collected = {}

\* C29: execute_payment_intent on an intent that requires multisig and has no
\* collected signatures fails with the multisig-incomplete error, calls no
\* transfer, appends no Payment and leaves the intent PENDING; through
\* fund_escrow_payment the same holds and the escrow stays PENDING.
C29_UnsignedMultisigIsRejected ==
    UnsignedMultisigExecution =>
        /\ ~last.res.success
        /\ last.res.error = "multisig incomplete"
        /\ ~last.transfer
        /\ last.same_history
        /\ last.same_intents
        /\ payment_intents[last.intent_id].status = "pending"
        /\ last.op = "fund" =>
              /\ last.same_escrows
              /\ escrow_payments[last.escrow_id].status = "pending"

C29_Witness ==
    /\ UnsignedMultisigExecution
    /\ last.op = "fund"
    /\ last.res.error = "multisig incomplete"
    /\ escrow_payments[last.escrow_id].status = "pending"

C29_WitnessExecute ==
    /\ UnsignedMultisigExecution
    /\ last.op = "execute"
    /\ last.res.error = "multisig incomplete"

\* The required_count of the policy an intent that requires multisig was
\* created under: among the policies the service is given, the required signers
\* stamped on the intent determine it.
RequiredCountAtCreation(intent) ==
    (CHOOSE config \in PolicyConfigs :
        config.required_signers = intent.signers_required).required_count

\* C30: set_multisig_config leaves every created intent as it was, and a
\* successful collect_multisig_signature reports the intent complete, and the
\* signatures still needed, against the required_count in force when the intent
\* was created.
C30_PolicyFixedAtCreation ==
    /\ last.op = "set_multisig_config" => last.same_intents
    /\ (last.op = "collect" /\ last.res.success) =>
          LET intent == payment_intents[last.intent_id]
              collected == Cardinality(intent.signatures_collected)
              required == RequiredCountAtCreation(intent)
          IN /\ last.res.status = "complete" <=> collected >= required
             /\ last.res.needed = IF collected >= required THEN 0 ELSE required - collected

\* C30, the part the code keeps: replacing the policy changes no intent.
C30_CreatedIntentsKeepTheirStamp ==
    last.op = "set_multisig_config" => last.same_intents

\* A reload of the wallet is recorded on the day of the current time:
\* last_reloaded_at was written on that day, which the code does only together
\* with an increment of reload_count_today.
ReloadedToday(wallet) ==
    /\ wallet \in DOMAIN balance_notifications
    /\ balance_notifications[wallet].last_reloaded_at # NotSet
    /\ DateOf(balance_notifications[wallet].last_reloaded_at) = DateOf(now)

\* C31: the reloads recorded for a wallet within one calendar day never exceed
\* the wallet's auto_reload_max_daily; a day on which a reload is recorded is
\* therefore a day whose cap is at least one.
C31_ReloadsWithinDailyCap ==
    \A wallet \in NotifyWallets :
        ReloadedToday(wallet) =>
            balance_notifications[wallet].auto_reload_max_daily >= 1

\* The fields of a BalanceNotification a check may write, blanked.
ButCheckFields(notification) ==
    [notification EXCEPT !.last_notified_at = NotSet, !.last_reloaded_at = NotSet,
                         !.reload_count_today = 0]

\* C32: check_balance_and_notify, its auto-reload step included, creates and
\* executes no payment intent, calls no transfer (no service call is recorded),
\* changes neither the payment history nor an escrow record; of the
\* registrations it changes at most last_notified_at, last_reloaded_at and
\* reload_count_today of the checked wallet, and nothing when it returns
\* alert_sent = False.
C32_CheckOnlyTouchesItsNotification ==
    [][(notify_last'.op = "check" /\ now' = now) =>
         /\ UNCHANGED <<payment_intents, escrow_payments, payment_history, last>>
         /\ DOMAIN balance_notifications' = DOMAIN balance_notifications
         /\ \A wallet \in DOMAIN balance_notifications :
               IF wallet = notify_last'.wallet
               THEN ButCheckFields(balance_notifications'[wallet])
                      = ButCheckFields(balance_notifications[wallet])
               ELSE balance_notifications'[wallet] = balance_notifications[wallet]
         /\ ~notify_last'.res.alert_sent => UNCHANGED balance_notifications]_vars

\* A check has just sent an alert and recorded a reload.
C32_Witness ==
    /\ notify_last.op = "check"
    /\ notify_last.res.alert_sent
    /\ notify_last.res.auto_reloaded
    /\ balance_notifications[notify_last.wallet].last_reloaded_at = notify_last.at
    /\ balance_notifications[notify_last.wallet].last_notified_at = notify_last.at
    /\ balance_notifications[notify_last.wallet].reload_count_today >= 1

\* C33: a legacy resolve_dispute that returns normally on a DISPUTED escrow
\* leaves it RELEASED or REFUNDED whatever the resolution argument is, and an
\* escrow whose dispute_resolved_at or dispute_resolution is set is RELEASED or
\* REFUNDED (no dispute is recorded as resolved and still open to be resolved
\* again).
C33_ResolvedDisputeIsSettled ==
    /\ (/\ escrow_last.op = "resolve"
        /\ ~escrow_last.raised
        /\ escrow_last.pre_state = "disputed") =>
            escrows[escrow_last.escrow_id].state \in {"released", "refunded"}
    /\ \A e \in DOMAIN escrows :
          (escrows[e].dispute_resolved_at \/ escrows[e].dispute_resolution # "none") =>
              escrows[e].state \in {"released", "refunded"}

\* C34: a review-service resolve_dispute that returns has resolved the dispute
\* with the chosen resolution, left the review RESOLVED with that resolution and
\* a resolver comment, and found the review DISPUTED (a review reaches RESOLVED
\* only from DISPUTED); one that raises changes nothing.
C34_ResolveDisputeOnce ==
    review_last.op = "resolve_dispute" =>
        IF review_last.raised
        THEN review_last.same_reviews /\ review_last.same_disputes /\ review_last.same_index
        ELSE /\ disputes[review_last.dispute_id].resolved
             /\ review_last.status = "resolved"
             /\ reviews[review_last.review_id].resolution
                  = disputes[review_last.dispute_id].resolution
             /\ Len(reviews[review_last.review_id].dispute_comments) >= 1
             /\ review_last.pre_status = "disputed"

\* C35: on every EscrowPayment record funded_at is set exactly when the status
\* is FUNDED, RELEASED or REFUNDED, released_at exactly when it is RELEASED and
\* refunded_at exactly when it is REFUNDED; released_at and refunded_at are
\* never both set.
C35_TimestampsFollowStatus ==
    \A e \in DOMAIN escrow_payments :
        LET escrow == escrow_payments[e] IN
        /\ escrow.funded_at <=> escrow.status \in {"funded", "released", "refunded"}
        /\ escrow.released_at <=> escrow.status = "released"
        /\ escrow.refunded_at <=> escrow.status = "refunded"
        /\ ~(escrow.released_at /\ escrow.refunded_at)

\* An escrow has been released after it was funded.
C35_Witness ==
    \E e \in DOMAIN escrow_payments :
        /\ escrow_payments[e].status = "released"
        /\ escrow_payments[e].funded_at
        /\ escrow_payments[e].released_at
        /\ ~escrow_payments[e].refunded_at
        /\ last.op = "release"

\* C36: however the steps of concurrent fund, release and refund calls on one
\* escrow interleave, no escrow ends with released_at and refunded_at both set,
\* none is RELEASED while its intent is CANCELLED, and the adapter is asked for
\* at most one transfer per funded intent.
C36_EscrowCallsSerialize ==
    /\ \A e \in DOMAIN escrow_payments :
          LET escrow == escrow_payments[e] IN
          /\ ~(escrow.released_at /\ escrow.refunded_at)
          /\ ~(/\ escrow.status = "released"
               /\ escrow.payment_intent_id \in DOMAIN payment_intents
               /\ payment_intents[escrow.payment_intent_id].status = "cancelled")
    /\ \A intent_id \in IntentIds : ledger_transfers[intent_id] <= 1

\* C36, each of its three ends on its own.
C36_NotReleasedAndRefunded ==
    \A e \in DOMAIN escrow_payments :
        ~(escrow_payments[e].released_at /\ escrow_payments[e].refunded_at)

C36_NotReleasedWithCancelledIntent ==
    \A e \in DOMAIN escrow_payments :
        ~(/\ escrow_payments[e].status = "released"
          /\ escrow_payments[e].payment_intent_id \in DOMAIN payment_intents
          /\ payment_intents[escrow_payments[e].payment_intent_id].status = "cancelled")

C36_OneTransferPerFunding ==
    \A intent_id \in IntentIds : ledger_transfers[intent_id] <= 1

\* C37: on an escrow whose intent requires multisig every key of the signature
\* map is one of the intent's required signers: release_escrow_payment records
\* and counts no signature of an authority outside the configured set.
C37_EscrowSignersAuthorized ==
    \A e \in DOMAIN escrow_payments :
        LET intent_id == escrow_payments[e].payment_intent_id IN
        (intent_id \in DOMAIN payment_intents /\ payment_intents[intent_id].requires_multisig) =>
            escrow_payments[e].signatures \subseteq payment_intents[intent_id].signers_required

\* An intent stamped as requiring multisig under a policy without signers.
Unsignable(intent_id) ==
    /\ intent_id \in DOMAIN payment_intents
    /\ payment_intents[intent_id].requires_multisig
    /\ payment_intents[intent_id].signers_required = {}

\* C38: an intent created at or above a positive threshold under a policy with
\* no required signers is never executed: it holds no collected signature and
\* is PENDING or CANCELLED in every state, collect_multisig_signature rejects
\* every signer for it, and every execute_payment_intent and
\* fund_escrow_payment on it fails.
C38_NoSignersNoExecution ==
    /\ \A intent_id \in DOMAIN payment_intents :
          Unsignable(intent_id) =>
              /\ payment_intents[intent_id].status \in {"pending", "cancelled"}
              /\ payment_intents[intent_id].signatures_collected = {}
    /\ Unsignable(last.intent_id) =>
          /\ last.op = "collect" =>
                ~last.res.success /\ last.res.error = "unauthorized"
          /\ last.op \in {"execute", "fund"} =>
                /\ ~last.res.success
                /\ ~last.transfer
                /\ last.res.error \in {"multisig incomplete", "invalid state"}

\* A signer of the policy now in force was rejected for an intent created
\* under the policy without signers.
C38_Witness ==
    /\ Unsignable(last.intent_id)
    /\ last.op = "collect"
    /\ last.res.error = "unauthorized"
    /\ multisig_config.required_signers # {}
    /\ payment_intents[last.intent_id].status = "pending"

\* The last call was an execute_payment_intent on a FAILED intent, or a fund,
\* release or refund on a PENDING escrow whose intent is FAILED.
OnFailedFunding ==
    /\ last.pre_intent = "failed"
    /\ \/ last.op = "execute"
       \/ last.op \in {"fund", "release", "refund"} /\ last.pre_escrow = "pending"

\* C39: a FAILED intent is not executed again, and an escrow whose funding
\* failed stays as it is, PENDING, under every fund, release and refund call:
\* each of these calls fails, asks for no transfer and changes neither the
\* escrow records nor the intents nor the history.
C39_FailedFundingIsStuck ==
    OnFailedFunding =>
        /\ ~last.res.success
        /\ last.res.error = "invalid state"
        /\ ~last.transfer
        /\ last.same_intents
        /\ last.same_escrows
        /\ last.same_history
        /\ IntentStatus(last.intent_id) = "failed"
        /\ last.op # "execute" => EscrowStatus(last.escrow_id) = "pending"

\* A funding has been tried again on the escrow whose first funding failed.
C39_Witness ==
    /\ OnFailedFunding
    /\ last.op = "fund"
    /\ EscrowStatus(last.escrow_id) = "pending"
    /\ IntentStatus(last.intent_id) = "failed"

\* get_review_votes: the helpful and the unhelpful votes stored for the review.
GetReviewVotes(review_id) ==
    LET of_review == {i \in 1..Len(votes) : votes[i].review_id = review_id}
    IN [helpful |-> Cardinality({i \in of_review : votes[i].helpful}),
        unhelpful |-> Cardinality({i \in of_review : ~votes[i].helpful})]

\* C40: a vote_review on an existing review stores one vote record, for that
\* review, and increments exactly one of the review's two counters by one,
\* whatever the review's status and whether or not the voter voted before;
\* after every step each review's counters are the tallies get_review_votes
\* computes from the stored votes.
C40_CountersMatchVotes ==
    [][/\ votes' # votes =>
            LET review_id == review_last'.review_id
                vote == votes'[Len(votes')]
            IN /\ votes' = Append(votes, vote)
               /\ vote.review_id = review_id
               /\ review_id \in DOMAIN reviews
               /\ review_last'.op = "vote"
               /\ ~review_last'.raised
               /\ review_last'.status = review_last'.pre_status
               /\ reviews' \in
                     { [reviews EXCEPT ![review_id].helpful_votes = @ + 1],
                       [reviews EXCEPT ![review_id].unhelpful_votes = @ + 1] }
               /\ vote.helpful <=>
                     reviews'[review_id].helpful_votes = reviews[review_id].helpful_votes + 1
       /\ \A review_id \in DOMAIN reviews' :
             /\ reviews'[review_id].helpful_votes = GetReviewVotes(review_id).helpful'
             /\ reviews'[review_id].unhelpful_votes = GetReviewVotes(review_id).unhelpful'
      ]_vars

\* The voter has voted a second time on a review that is not SUBMITTED, and the
\* review counts one helpful and one unhelpful vote.
C40_Witness ==
    /\ review_last.op = "vote"
    /\ ~review_last.raised
    /\ review_last.status # "submitted"
    /\ Len(votes) = 2
    /\ votes[1].voter = votes[2].voter
    /\ votes[1].review_id = votes[2].review_id
    /\ GetReviewVotes(review_last.review_id) = [helpful |-> 1, unhelpful |-> 1]
    /\ reviews[review_last.review_id].helpful_votes = 1
    /\ reviews[review_last.review_id].unhelpful_votes = 1

====
